---- MODULE Spec2Model ----
(***************************************************************************)
(* A model of gnftools: the sub-feature inference engine and the builders  *)
(* (gnf/src/feature.rs) and the refFlat record streaming, grouping and     *)
(* serialisation (genomic_fx/src/io_refflat.rs).                           *)
(***************************************************************************)
EXTENDS Integers, Sequences, FiniteSets, TLC

(***************************************************************************)
(* Bounds of the model.                                                    *)
(***************************************************************************)
\* largest coordinate of the ascending exon lists
MaxCoord == 7
\* longest ascending exon list
MaxExons == 3
\* largest coordinate of the exon lists given in any order
MaxAnyCoord == 2
\* longest exon list given in any order
MaxAnyExons == 2

\* rows in a refFlat input
MaxRows == 4

\* coordinates and exons of a row that is read and written back
MaxRtCoord == 2

MaxRtExons == 2

\* largest coordinate and longest exon list given to a builder
MaxBuildCoord == 2

MaxBuildExons == 2

\* transcripts of a gene handed to the writer
MaxGeneTranscripts == 3

\* coordinates of the intervals that are compared
MaxIvCoord == 4

(***************************************************************************)
(* Unsigned 64-bit arithmetic.  Every coordinate of the model is small, so *)
(* a u64 value v is held as v itself, and a value that wrapped below zero  *)
(* (2^64 - k, k small) is held as -k.  Wrapping addition and subtraction   *)
(* are then the integer ones; the unsigned order puts every wrapped value  *)
(* above every small one.                                                  *)
(***************************************************************************)
ULt(a, b) == IF (a < 0) = (b < 0) THEN a < b ELSE b < 0

ULe(a, b) == a = b \/ ULt(a, b)

UMin(a, b) == IF ULt(b, a) THEN b ELSE a

UMax(a, b) == IF ULt(a, b) THEN b ELSE a

\* a - b leaves the u64 range
SubOverflows(a, b) == ULt(a, b)

\* a + b leaves the u64 range
AddOverflows(a, b) == \/ (a < 0 /\ b < 0)
                      \/ ((a < 0) # (b < 0) /\ a + b >= 0)

(***************************************************************************)
(* Strand, TxFeature and TranscriptFeature.                                *)
(***************************************************************************)
Strands == {"Forward", "Reverse", "Unknown"}

TxFeature == {"Exon", "UTR", "UTR5", "UTR3", "CDS", "StartCodon", "StopCodon", "Any"}

FeatureError == {"IntervalError", "StrandCharError", "ConflictingStrandError",
                 "UnspecifiedStrandError", "SubFeatureIntervalError",
                 "IncompleteTranscriptError"}

\* Option<(u64, u64)>: None is the empty tuple, Some((a, b)) is <<a, b>>
NoCds == <<>>

\* Option::None elsewhere: no group key, no record, no result
None == <<>>

\* make_feature: the sub-feature record; Interval::new(start..end).unwrap()
\* panics when start > end, which MakeFails tells
make_feature(kind, start, end) == [kind |-> kind, start |-> start, end |-> end]

MakeFails(start, end) == ULt(end, start)

span(fx) == fx.end - fx.start

\* the kinds at the coding start side with the strand left out of account
Side1AnyStrand(s) ==
    IF s = "Unknown" THEN [utr |-> "UTR", mcodon |-> "None"]
    ELSE [utr |-> "UTR5", mcodon |-> "StartCodon"]

\* (utr1, mcodon1): the kinds at the coding start side
Side1(s) == CASE s = "Forward" -> [utr |-> "UTR5", mcodon |-> "StartCodon"]
              [] s = "Reverse" -> [utr |-> "UTR3", mcodon |-> "StopCodon"]
              [] OTHER -> [utr |-> "UTR", mcodon |-> "None"]

\* (utr2, mcodon2): the kinds at the coding end side
Side2(s) == CASE s = "Forward" -> [utr |-> "UTR3", mcodon |-> "StopCodon"]
              [] s = "Reverse" -> [utr |-> "UTR5", mcodon |-> "StartCodon"]
              [] OTHER -> [utr |-> "UTR", mcodon |-> "None"]

(***************************************************************************)
(* The body of the exon loop of infer_features with a coding region, one   *)
(* operator per branch.  acc holds the loop's state: the features pushed   *)
(* so far and the two codon counters; panic tells that a make_feature      *)
(* unwrap failed, ovf that an unsigned operation left the u64 range (a     *)
(* panic in a build with overflow checks, a wrapped value in one without). *)
(***************************************************************************)
Acc(fxs, c1, c2, panic, ovf) ==
    [features |-> fxs, codon1_remaining |-> c1, codon2_remaining |-> c2,
     panic |-> panic, ovf |-> ovf]

\* end <= cds_r.0: whole UTR exon block
WholeUtr1Block(acc, start, end, s) ==
    Acc(acc.features \o <<make_feature("Exon", start, end),
                          make_feature(Side1(s).utr, start, end)>>,
        acc.codon1_remaining, acc.codon2_remaining, acc.panic, acc.ovf)

\* UTR-CDS exon block whose codon leaves the counter as it was
UtrCdsBlockKeepsCounter(acc, start, end, cs, s) ==
    LET codon1 == Side1(s).mcodon
        codon == make_feature(codon1, cs, UMin(cs + 3, end))
        head == <<make_feature("Exon", start, end),
                  make_feature(Side1(s).utr, start, cs)>>
        cds == <<make_feature("CDS", cs, end)>>
    IN  IF codon1 = "None"
        THEN Acc(acc.features \o head \o cds,
                 acc.codon1_remaining, acc.codon2_remaining, acc.panic, acc.ovf)
        ELSE Acc(acc.features \o head \o <<codon>> \o cds,
                 acc.codon1_remaining, acc.codon2_remaining,
                 acc.panic \/ MakeFails(codon.start, codon.end), acc.ovf)

\* start < cds_r.0: UTR-CDS exon block
UtrCdsBlock(acc, start, end, cs, s) ==
    LET codon1 == Side1(s).mcodon
        codon == make_feature(codon1, cs, UMin(cs + 3, end))
        head == <<make_feature("Exon", start, end),
                  make_feature(Side1(s).utr, start, cs)>>
        cds == <<make_feature("CDS", cs, end)>>
    IN  IF codon1 = "None"
        THEN Acc(acc.features \o head \o cds,
                 acc.codon1_remaining, acc.codon2_remaining, acc.panic, acc.ovf)
        ELSE Acc(acc.features \o head \o <<codon>> \o cds,
                 acc.codon1_remaining - span(codon), acc.codon2_remaining,
                 acc.panic \/ MakeFails(codon.start, codon.end),
                 acc.ovf \/ SubOverflows(acc.codon1_remaining, span(codon)))

\* whole CDS exon block that never goes on with a codon
WholeCdsBlockNoCodon(acc, start, end, s) ==
    Acc(acc.features \o <<make_feature("Exon", start, end), make_feature("CDS", start, end)>>,
        acc.codon1_remaining, acc.codon2_remaining, acc.panic, acc.ovf)

\* end < cds_r.1: whole CDS exon block
WholeCdsBlock(acc, start, end, s) ==
    LET codon1 == Side1(s).mcodon
        sum == start + acc.codon1_remaining
        codon == make_feature(codon1, start, UMin(sum, end))
        exon == <<make_feature("Exon", start, end)>>
        cds == <<make_feature("CDS", start, end)>>
    IN  IF ULt(0, acc.codon1_remaining) /\ codon1 # "None"
        THEN Acc(acc.features \o exon \o <<codon>> \o cds,
                 acc.codon1_remaining - span(codon), acc.codon2_remaining,
                 acc.panic \/ MakeFails(codon.start, codon.end),
                 \/ acc.ovf
                 \/ AddOverflows(start, acc.codon1_remaining)
                 \/ SubOverflows(acc.codon1_remaining, span(codon)))
        ELSE Acc(acc.features \o exon \o cds,
                 acc.codon1_remaining, acc.codon2_remaining, acc.panic, acc.ovf)

\* end == cds_r.1: whole CDS exon block at the end
WholeCdsEndBlock(acc, start, end, ce, s) ==
    LET codon2 == Side2(s).mcodon
        codon == make_feature(codon2, UMax(start, ce - acc.codon2_remaining), end)
        head == <<make_feature("Exon", start, end), make_feature("CDS", start, end)>>
    IN  IF ULe(acc.codon2_remaining, end - start) /\ codon2 # "None"
        THEN Acc(acc.features \o head \o <<codon>>,
                 acc.codon1_remaining, acc.codon2_remaining - span(codon),
                 acc.panic \/ MakeFails(codon.start, codon.end),
                 \/ acc.ovf
                 \/ SubOverflows(ce, acc.codon2_remaining)
                 \/ SubOverflows(acc.codon2_remaining, span(codon)))
        ELSE Acc(acc.features \o head,
                 acc.codon1_remaining, acc.codon2_remaining, acc.panic, acc.ovf)

\* start < cds_r.1: CDS-UTR exon block
CdsUtrBlock(acc, start, end, ce, s) ==
    LET codon2 == Side2(s).mcodon
        prev_end == IF Len(acc.features) = 0 THEN 0
                    ELSE acc.features[Len(acc.features)].end
        retro == /\ ULt(ce - start, acc.codon2_remaining)
                 /\ prev_end > 0
                 /\ codon2 # "None"
        missing == acc.codon2_remaining - (ce - start)
        rcodon == make_feature(codon2, prev_end - missing, prev_end)
        rem == IF retro THEN acc.codon2_remaining - span(rcodon)
               ELSE acc.codon2_remaining
        codon == make_feature(codon2, UMax(start, ce - rem), ce)
        body == <<make_feature("Exon", start, end), make_feature("CDS", start, ce)>>
        utr == <<make_feature(Side2(s).utr, ce, end)>>
    IN  IF codon2 = "None"
        THEN Acc(acc.features \o body \o utr,
                 acc.codon1_remaining, acc.codon2_remaining, acc.panic, acc.ovf)
        ELSE Acc(acc.features \o (IF retro THEN <<rcodon>> ELSE <<>>)
                     \o body \o <<codon>> \o utr,
                 acc.codon1_remaining, rem - span(codon),
                 \/ acc.panic
                 \/ (retro /\ MakeFails(rcodon.start, rcodon.end))
                 \/ MakeFails(codon.start, codon.end),
                 \/ acc.ovf
                 \/ (retro /\ SubOverflows(prev_end, missing))
                 \/ (retro /\ SubOverflows(acc.codon2_remaining, span(rcodon)))
                 \/ SubOverflows(ce, rem)
                 \/ SubOverflows(rem, span(codon)))

\* else: whole UTR exon block
WholeUtr2Block(acc, start, end, s) ==
    Acc(acc.features \o <<make_feature("Exon", start, end),
                          make_feature(Side2(s).utr, start, end)>>,
        acc.codon1_remaining, acc.codon2_remaining, acc.panic, acc.ovf)

\* the if / else-if chain of the loop body
CdsExonBlock(acc, exon, cds_r, s) ==
    LET start == exon[1]
        end == exon[2]
    IN  IF end <= cds_r[1] THEN WholeUtr1Block(acc, start, end, s)
        ELSE IF start < cds_r[1] THEN UtrCdsBlock(acc, start, end, cds_r[1], s)
        ELSE IF end < cds_r[2] THEN WholeCdsBlock(acc, start, end, s)
        ELSE IF end = cds_r[2] THEN WholeCdsEndBlock(acc, start, end, cds_r[2], s)
        ELSE IF start < cds_r[2] THEN CdsUtrBlock(acc, start, end, cds_r[2], s)
        ELSE WholeUtr2Block(acc, start, end, s)

\* NoCdsExonBlock pushing at the front of the vector
NoCdsExonBlockFront(fxs, exon) == <<make_feature("Exon", exon[1], exon[2])>> \o fxs

\* the loop body without a coding region: start > end cannot hold here
\* (a >= b was refused before), so the exon is pushed
NoCdsExonBlock(fxs, exon) == Append(fxs, make_feature("Exon", exon[1], exon[2]))

(***************************************************************************)
(* The checks infer_features makes before its loops, in the code's order.  *)
(* The answer is an error, or the loop to enter.                           *)
(***************************************************************************)
exon_r(coords) == <<coords[1][1], coords[Len(coords)][2]>>

\* the checks with only the first pair looked at
InferChecksFirstPair(interval, coords, cds) ==
    IF Len(coords) = 0 THEN "IncompleteTranscriptError"
    ELSE IF coords[1][1] >= coords[1][2] THEN "SubFeatureIntervalError"
    ELSE IF exon_r(coords)[1] # interval[1] \/ exon_r(coords)[2] # interval[2]
    THEN "SubFeatureIntervalError"
    ELSE IF cds # NoCds /\ cds[1] > cds[2] THEN "SubFeatureIntervalError"
    ELSE IF cds # NoCds /\ cds[1] < cds[2]
    THEN (IF cds[1] < exon_r(coords)[1] \/ cds[2] > exon_r(coords)[2]
          THEN "SubFeatureIntervalError"
          ELSE "cds_loop")
    ELSE "exon_loop"

\* the checks without the one that the exon span envelops the coding pair
InferChecksNoEnvelope(interval, coords, cds) ==
    IF Len(coords) = 0 THEN "IncompleteTranscriptError"
    ELSE IF \E i \in 1..Len(coords) : coords[i][1] >= coords[i][2]
    THEN "SubFeatureIntervalError"
    ELSE IF exon_r(coords)[1] # interval[1] \/ exon_r(coords)[2] # interval[2]
    THEN "SubFeatureIntervalError"
    ELSE IF cds # NoCds /\ cds[1] > cds[2] THEN "SubFeatureIntervalError"
    ELSE IF cds # NoCds /\ cds[1] < cds[2] THEN "cds_loop"
    ELSE "exon_loop"

\* the checks with a pair cs = ce taken for a coding region
InferChecksDegenerateCoding(interval, coords, cds) ==
    IF Len(coords) = 0 THEN "IncompleteTranscriptError"
    ELSE IF \E i \in 1..Len(coords) : coords[i][1] >= coords[i][2]
    THEN "SubFeatureIntervalError"
    ELSE IF exon_r(coords)[1] # interval[1] \/ exon_r(coords)[2] # interval[2]
    THEN "SubFeatureIntervalError"
    ELSE IF cds # NoCds /\ cds[1] > cds[2] THEN "SubFeatureIntervalError"
    ELSE IF cds # NoCds
    THEN (IF cds[1] < exon_r(coords)[1] \/ cds[2] > exon_r(coords)[2]
          THEN "SubFeatureIntervalError"
          ELSE "cds_loop")
    ELSE "exon_loop"

InferChecks(interval, coords, cds) ==
    IF Len(coords) = 0 THEN "IncompleteTranscriptError"
    ELSE IF \E i \in 1..Len(coords) : coords[i][1] >= coords[i][2]
    THEN "SubFeatureIntervalError"
    ELSE IF exon_r(coords)[1] # interval[1] \/ exon_r(coords)[2] # interval[2]
    THEN "SubFeatureIntervalError"
    ELSE IF cds # NoCds /\ cds[1] > cds[2] THEN "SubFeatureIntervalError"
    ELSE IF cds # NoCds /\ cds[1] < cds[2]
    THEN (IF cds[1] < exon_r(coords)[1] \/ cds[2] > exon_r(coords)[2]
          THEN "SubFeatureIntervalError"
          ELSE "cds_loop")
    ELSE "exon_loop"

(***************************************************************************)
(* Text.  A String is the sequence of its characters, so that parsing and  *)
(* formatting are computed, character by character.                        *)
(***************************************************************************)
DigitChars == <<"0", "1", "2", "3", "4", "5", "6", "7", "8", "9">>

IsDigit(c) == \E d \in 1..Len(DigitChars) : DigitChars[d] = c

DigitVal(c) == (CHOOSE d \in 1..Len(DigitChars) : DigitChars[d] = c) - 1

Ok(v) == [ok |-> TRUE, val |-> v]

Err(e) == [ok |-> FALSE, err |-> e]

RECURSIVE DigitsValue(_, _)
DigitsValue(ds, acc) ==
    IF ds = <<>> THEN acc
    ELSE DigitsValue(Tail(ds), acc * Len(DigitChars) + DigitVal(Head(ds)))

\* u64::from_str: an optional plus sign, then one digit or more
u64_from_str(item) ==
    LET digits == IF item # <<>> /\ Head(item) = "+" THEN Tail(item) ELSE item
    IN  IF digits = <<>> \/ \E i \in 1..Len(digits) : ~IsDigit(digits[i])
        THEN Err("ParseInt")
        ELSE Ok(DigitsValue(digits, 0))

\* u64's Display: decimal, no sign, no leading zero
RECURSIVE u64_to_string(_)
u64_to_string(n) ==
    IF n < Len(DigitChars) THEN <<DigitChars[n + 1]>>
    ELSE u64_to_string(n \div Len(DigitChars)) \o <<DigitChars[(n % Len(DigitChars)) + 1]>>

\* str::trim_matches(','): every comma at either end goes
RECURSIVE trim_matches(_)
trim_matches(s) ==
    IF s = <<>> THEN s
    ELSE IF Head(s) = "," THEN trim_matches(Tail(s))
    ELSE IF s[Len(s)] = "," THEN trim_matches(SubSeq(s, 1, Len(s) - 1))
    ELSE s

\* str::split(','): the pieces between the commas, the empty ones kept
RECURSIVE split(_)
split(s) ==
    IF \A i \in 1..Len(s) : s[i] # "," THEN <<s>>
    ELSE LET c == CHOOSE i \in 1..Len(s) : s[i] = "," /\ \A j \in 1..(i - 1) : s[j] # ","
         IN  <<SubSeq(s, 1, c - 1)>> \o split(SubSeq(s, c + 1, Len(s)))

\* Itertools::join(","): the items with a comma between neighbours
RECURSIVE join(_)
join(items) ==
    IF items = <<>> THEN <<>>
    ELSE IF Len(items) = 1 THEN items[1]
    ELSE items[1] \o <<",">> \o join(Tail(items))

(***************************************************************************)
(* RefFlatRecord and its conversion into a Transcript.                     *)
(***************************************************************************)
RefFlatRecord(gene_id, transcript_name, seq_name, strand_char, trx_start, trx_end, coding_start, coding_end, num_exons, exon_starts, exon_ends) ==
    [gene_id |-> gene_id, transcript_name |-> transcript_name, seq_name |-> seq_name,
     strand |-> strand_char, trx_start |-> trx_start, trx_end |-> trx_end,
     coding_start |-> coding_start, coding_end |-> coding_end,
     num_exons |-> num_exons, exon_starts |-> exon_starts, exon_ends |-> exon_ends]

\* Strand::from_char of the bio library, as the specification tells it:
\* + - . and nothing else
StrandChars == {"+", "-", "."}

Strand_from_char(c) ==
    CASE c = "+" -> "Forward" [] c = "-" -> "Reverse" [] c = "." -> "Unknown"
      [] OTHER -> "StrandCharError"

\* the zip of the two parsed fields: it is as long as the shorter, and the
\* pieces past that are never parsed; the first bad piece ends it
zip_raw_exon_coords(rec) ==
    LET exon_starts == split(trim_matches(rec.exon_starts))
        exon_ends == split(trim_matches(rec.exon_ends))
        n == IF Len(exon_starts) < Len(exon_ends) THEN Len(exon_starts) ELSE Len(exon_ends)
    IN  IF \E k \in 1..n : ~u64_from_str(exon_starts[k]).ok \/ ~u64_from_str(exon_ends[k]).ok
        THEN Err("ParseInt")
        ELSE Ok([k \in 1..n |->
                        <<u64_from_str(exon_starts[k]).val, u64_from_str(exon_ends[k]).val>>])

MinStart(coords) ==
    CHOOSE a \in {coords[i][1] : i \in 1..Len(coords)} :
        \A i \in 1..Len(coords) : a <= coords[i][1]

MaxEnd(coords) ==
    CHOOSE b \in {coords[i][2] : i \in 1..Len(coords)} :
        \A i \in 1..Len(coords) : coords[i][2] <= b

\* TBuilder::build of the model module, which is not among the sources:
\* the checks of the specification (4.3, 4.2) in its order, then the
\* Transcript with the exons in the order given
TBuilder_build(seq_name, start, end, id, strand_v, coords, coding_coord, gene_id) ==
    IF start > end THEN Err("IntervalError")
    ELSE IF Len(coords) = 0 THEN Err("IncompleteTranscriptError")
    ELSE IF \E i \in 1..Len(coords) : coords[i][1] >= coords[i][2]
    THEN Err("SubFeatureIntervalError")
    ELSE IF MinStart(coords) # start \/ MaxEnd(coords) # end
    THEN Err("SubFeatureIntervalError")
    ELSE IF coding_coord # NoCds /\ coding_coord[1] > coding_coord[2]
    THEN Err("SubFeatureIntervalError")
    ELSE IF /\ coding_coord # NoCds
            /\ coding_coord[1] < coding_coord[2]
            /\ (coding_coord[1] < start \/ coding_coord[2] > end)
    THEN Err("SubFeatureIntervalError")
    ELSE Ok([id |-> id, seq_name |-> seq_name, strand |-> strand_v,
                  start |-> start, end |-> end, gene_id |-> gene_id,
                  exons |-> coords,
                  coding |-> IF coding_coord # NoCds /\ coding_coord[1] < coding_coord[2]
                             THEN coding_coord ELSE NoCds])

into_transcript(rec) ==
    LET exon_coords_r == zip_raw_exon_coords(rec)
        strand_v == Strand_from_char(rec.strand)
        coding_coord == IF rec.coding_start # rec.coding_end
                        THEN <<rec.coding_start, rec.coding_end>>
                        ELSE NoCds
    IN  IF ~exon_coords_r.ok THEN exon_coords_r
        ELSE IF Len(exon_coords_r.val) # rec.num_exons
        THEN Err("RefFlat: number of exon and exon coordinates mismatch")
        ELSE IF strand_v = "StrandCharError" THEN Err("StrandCharError")
        ELSE TBuilder_build(rec.seq_name, rec.trx_start, rec.trx_end,
                            rec.transcript_name, strand_v, exon_coords_r.val,
                            coding_coord, rec.gene_id)

(***************************************************************************)
(* Writer: a Transcript back into a row.                                   *)
(***************************************************************************)
\* Transcript::coding_coord(true) of the model module: the coding span
coding_coord_of(transcript) == transcript.coding

\* exon fields without the comma at the end
coords_field_bare(transcript) ==
    <<join([i \in 1..Len(transcript.exons) |-> u64_to_string(transcript.exons[i][1])]),
      join([i \in 1..Len(transcript.exons) |-> u64_to_string(transcript.exons[i][2])])>>

coords_field(transcript) ==
    LET starts == join([i \in 1..Len(transcript.exons) |->
                           u64_to_string(transcript.exons[i][1])]) \o <<",">>
        ends == join([i \in 1..Len(transcript.exons) |->
                         u64_to_string(transcript.exons[i][2])]) \o <<",">>
    IN  <<starts, ends>>

\* a writer that marks "no coding region" with the transcript's start
write_transcript_gid_start_mark(transcript, gid) ==
    LET gene_id == IF gid # "None" THEN gid ELSE transcript.gene_id
        strand_char == CASE transcript.strand = "Forward" -> "+"
                         [] transcript.strand = "Reverse" -> "-"
                         [] OTHER -> "."
        coding == IF coding_coord_of(transcript) # NoCds
                  THEN coding_coord_of(transcript)
                  ELSE <<transcript.start, transcript.start>>
    IN  RefFlatRecord(gene_id, transcript.id, transcript.seq_name, strand_char,
                      transcript.start, transcript.end, coding[1], coding[2],
                      Len(transcript.exons),
                      coords_field(transcript)[1], coords_field(transcript)[2])

\* gid: the gene id to write, or "None" for the transcript's own
write_transcript_gid(transcript, gid) ==
    LET gene_id == IF gid # "None" THEN gid ELSE transcript.gene_id
        strand_char == CASE transcript.strand = "Forward" -> "+"
                         [] transcript.strand = "Reverse" -> "-"
                         [] OTHER -> "."
        coding == IF coding_coord_of(transcript) # NoCds
                  THEN coding_coord_of(transcript)
                  ELSE <<transcript.end, transcript.end>>
    IN  RefFlatRecord(gene_id, transcript.id, transcript.seq_name, strand_char,
                      transcript.start, transcript.end, coding[1], coding[2],
                      Len(transcript.exons),
                      coords_field(transcript)[1], coords_field(transcript)[2])

write_transcript(transcript) == write_transcript_gid(transcript, "None")

\* a write_gene that leaves every row the gene id of its own transcript
write_gene_own_ids(gene) ==
    [i \in 1..Len(gene.transcripts) |->
        write_transcript_gid(gene.transcripts[i], "None")]

\* Writer::write_gene: gid is the gene's id ("None" when it has none), the
\* for loop writes one row for each entry of gene.transcripts() in the
\* order of the map
write_gene(gene) ==
    LET gid == gene.id
    IN  [i \in 1..Len(gene.transcripts) |->
            write_transcript_gid(gene.transcripts[i], gid)]

(***************************************************************************)
(* The builders: TxFeatureBuilder and TranscriptBuilder.  An Option that   *)
(* holds a Strand or a char is "None" when nothing was given; an Option    *)
(* that holds a Vec is None, or Some(v).                                   *)
(***************************************************************************)
Some(v) == <<v>>

\* the enum is taken whenever it is given
resolve_strand_input_enum_first(strand_v, strand_char) ==
    IF strand_v = "None" /\ strand_char = "None" THEN "UnspecifiedStrandError"
    ELSE IF strand_v # "None" THEN strand_v
    ELSE Strand_from_char(strand_char)

\* the Strand, or the name of the FeatureError
resolve_strand_input(strand_v, strand_char) ==
    IF strand_v = "None" /\ strand_char = "None" THEN "UnspecifiedStrandError"
    ELSE IF strand_char = "None" THEN strand_v
    ELSE IF strand_v = "None" THEN Strand_from_char(strand_char)
    ELSE LET sv_from_char == Strand_from_char(strand_char)
         IN  IF sv_from_char = "StrandCharError" THEN "StrandCharError"
             ELSE IF strand_v = sv_from_char THEN strand_v
             ELSE "ConflictingStrandError"

\* Interval::new(start..end) fails when start > end
coords_to_interval(start, end) ==
    IF start > end THEN Err("IntervalError") ELSE Ok(<<start, end>>)

\* the match with a coding pair alone taken for nothing given
resolve_transcript_features_cds_alone_ok(fxs, raw_exon_coords, cdsc) ==
    IF fxs = None /\ raw_exon_coords = None THEN [infer |-> FALSE, res |-> Ok(<<>>)]
    ELSE IF fxs # None THEN [infer |-> FALSE, res |-> Ok(fxs[1])]
    ELSE [infer |-> TRUE, res |-> None]

\* the arms of the match up to the call of infer_features: a result, or the
\* call still to make
resolve_transcript_features(fxs, raw_exon_coords, cdsc) ==
    IF fxs = None /\ raw_exon_coords = None /\ cdsc = NoCds
    THEN [infer |-> FALSE, res |-> Ok(<<>>)]
    ELSE IF fxs = None /\ raw_exon_coords = None
    THEN [infer |-> FALSE, res |-> Err("IncompleteTranscriptError")]
    ELSE IF fxs # None THEN [infer |-> FALSE, res |-> Ok(fxs[1])]
    ELSE [infer |-> TRUE, res |-> None]

\* the strand is resolved before the interval
build_strand_and_interval(b) ==
    IF resolve_strand_input(b.strand, b.strand_char) \in FeatureError
    THEN Err(resolve_strand_input(b.strand, b.strand_char))
    ELSE IF ~coords_to_interval(b.start, b.end).ok
    THEN coords_to_interval(b.start, b.end)
    ELSE Ok([interval |-> coords_to_interval(b.start, b.end).val,
             strand |-> resolve_strand_input(b.strand, b.strand_char)])

\* the first two lines of both build functions: the interval, then the
\* strand, each with its ?
build_interval_and_strand(b) ==
    IF ~coords_to_interval(b.start, b.end).ok
    THEN coords_to_interval(b.start, b.end)
    ELSE IF resolve_strand_input(b.strand, b.strand_char) \in FeatureError
    THEN Err(resolve_strand_input(b.strand, b.strand_char))
    ELSE Ok([interval |-> coords_to_interval(b.start, b.end).val,
             strand |-> resolve_strand_input(b.strand, b.strand_char)])

\* struct Transcript, without the name and the attributes
Transcript(interval, strand_v, fxs) ==
    [start |-> interval[1], end |-> interval[2], strand |-> strand_v, features |-> fxs]

(***************************************************************************)
(* State.  infer_features is run as a state machine over its exon loop.    *)
(***************************************************************************)
VARIABLES
    trx,               \* transcript_interval, <<start, end>>
    strand,            \* transcript_strand
    exon_coords,       \* the exon pairs, in the order given
    cds_span,          \* Option<(u64, u64)>
    pc,                \* "start", "cds_loop", "exon_loop", "done"
    idx,               \* the loop's position in exon_coords
    features,          \* the Vec<TranscriptFeature> being filled
    codon1_remaining,  \* bases of the coding start side codon still to place
    codon2_remaining,  \* bases of the coding end side codon still to place
    result,            \* "none" while running, then "Ok", a FeatureError or "panic"
    rows,              \* the input: what the csv decoder gives for each row
    read,              \* rows pulled from the decoder so far
    held,              \* the row the GroupBy holds as the head of the next group, or 0
    yielded,           \* what the genes iterator has yielded, in order
    ended,             \* the iterator has returned None
    iter,              \* the sequence that is pulled: "genes", "records", "transcripts"
    raw_row,           \* a RefFlatRecord as decoded from a row
    rt_pc,             \* "read", "write" or "rejected", "done", "read back"
    converted,         \* what into_transcript gave for raw_row
    written_row,       \* the row write_transcript made of the transcript
    read_back,         \* what into_transcript gave for written_row
    wg_gene,           \* the Gene handed to write_gene
    wg_pc,             \* "write", then "done"
    wg_rows,           \* the rows write_gene wrote, in their order
    iv_pair,           \* the two intervals that are compared
    iv_pc,             \* "compare", then "done"
    iv_answers,        \* what overlaps and is_adjacent said, both ways round
    builder,           \* the call at hand: a builder's fields, or a direct call's arguments
    build_pc,          \* "idle"; "new", then "infer" while infer_features runs, then "done"
    build_result       \* None, then what the call returned

infer_vars == <<trx, strand, exon_coords, cds_span, pc, idx, features,
                codon1_remaining, codon2_remaining, result>>

genes_vars == <<rows, read, held, yielded, ended, iter>>

rt_vars == <<raw_row, rt_pc, converted, written_row, read_back>>

build_vars == <<builder, build_pc, build_result>>

write_vars == <<wg_gene, wg_pc, wg_rows>>

interval_vars == <<iv_pair, iv_pc, iv_answers>>

vars == <<infer_vars, genes_vars, rt_vars, build_vars, write_vars, interval_vars>>

inputs == <<trx, strand, exon_coords, cds_span>>

(***************************************************************************)
(* Inputs.                                                                 *)
(***************************************************************************)
\* the pairs a < b over lo..hi
Pairs(lo, hi) == {p \in (lo..hi) \X (lo..hi) : p[1] < p[2]}

\* ascending, non-overlapping lists of n exons with every start >= lo
RECURSIVE AscLists(_, _)
AscLists(n, lo) ==
    IF n = 0 THEN {<<>>}
    ELSE UNION {{<<p>> \o t : t \in AscLists(n - 1, p[2])} : p \in Pairs(lo, MaxCoord)}

ValidExonLists == UNION {AscLists(n, 0) : n \in 1..MaxExons}

\* every list of at most n pairs over S, in any order
RECURSIVE AnyLists(_, _)
AnyLists(n, S) ==
    IF n = 0 THEN {<<>>}
    ELSE AnyLists(n - 1, S) \cup {<<p>> \o t : p \in S, t \in {u \in AnyLists(n - 1, S) : Len(u) = n - 1}}

\* the coding pairs cs < ce enveloped by the span of the list
EnvelopedCds(coords) == Pairs(exon_r(coords)[1], exon_r(coords)[2])

InitLoop ==
    /\ pc = "start"
    /\ idx = 1
    /\ features = <<>>
    /\ codon1_remaining = 3
    /\ codon2_remaining = 3
    /\ result = "none"

\* valid exon lists, the transcript interval their span, no coding pair or
\* an enveloped one
\* no refFlat input at hand
GenesIdle ==
    /\ rows = <<>>
    /\ read = 0
    /\ held = 0
    /\ yielded = <<>>
    /\ ended = FALSE
    /\ iter = "none"

\* no row to read and write back
RoundTripIdle ==
    /\ raw_row = None
    /\ rt_pc = "idle"
    /\ converted = None
    /\ written_row = None
    /\ read_back = None

\* no builder at hand
BuildIdle ==
    /\ builder = None
    /\ build_pc = "idle"
    /\ build_result = None

\* no gene at the writer
WriteIdle ==
    /\ wg_gene = None
    /\ wg_pc = "idle"
    /\ wg_rows = None

\* no intervals to compare
IntervalIdle ==
    /\ iv_pair = None
    /\ iv_pc = "idle"
    /\ iv_answers = None

Init ==
    /\ GenesIdle
    /\ RoundTripIdle
    /\ BuildIdle
    /\ WriteIdle
    /\ IntervalIdle
    /\ exon_coords \in ValidExonLists
    /\ trx = exon_r(exon_coords)
    /\ cds_span \in {NoCds} \cup EnvelopedCds(exon_coords)
    /\ strand \in Strands
    /\ InitLoop

\* exon lists in any order, any pair, any transcript interval, any coding pair
InitAnyOrder ==
    /\ GenesIdle
    /\ RoundTripIdle
    /\ BuildIdle
    /\ WriteIdle
    /\ IntervalIdle
    /\ exon_coords \in AnyLists(MaxAnyExons, (0..MaxAnyCoord) \X (0..MaxAnyCoord))
    /\ trx \in {p \in (0..MaxAnyCoord) \X (0..MaxAnyCoord) : p[1] <= p[2]}
    /\ cds_span \in {NoCds} \cup ((0..MaxAnyCoord) \X (0..MaxAnyCoord))
    /\ strand \in Strands
    /\ InitLoop

(***************************************************************************)
(* infer_features: the checks, the two loops, the return.                  *)
(***************************************************************************)
InferStart ==
    /\ pc = "start"
    /\ LET r == InferChecks(trx, exon_coords, cds_span)
       IN  IF r \in {"cds_loop", "exon_loop"}
           THEN pc' = r /\ result' = result
           ELSE pc' = "done" /\ result' = r
    /\ UNCHANGED <<inputs, idx, features, codon1_remaining, codon2_remaining>>
    /\ UNCHANGED <<genes_vars, rt_vars, build_vars, write_vars, interval_vars>>

\* one pass of the loop with a coding region.  A failed unwrap panics; an
\* overflow panics in a build with overflow checks and wraps in one without.
CdsLoopStep ==
    /\ pc = "cds_loop"
    /\ idx <= Len(exon_coords)
    /\ LET out == CdsExonBlock(
                      Acc(features, codon1_remaining, codon2_remaining, FALSE, FALSE),
                      exon_coords[idx], cds_span, strand)
       IN  \E panics \in (IF out.panic THEN {TRUE}
                          ELSE IF out.ovf THEN {TRUE, FALSE} ELSE {FALSE}) :
               IF panics
               THEN /\ pc' = "done"
                    /\ result' = "panic"
                    /\ UNCHANGED <<idx, features, codon1_remaining, codon2_remaining>>
               ELSE /\ features' = out.features
                    /\ codon1_remaining' = out.codon1_remaining
                    /\ codon2_remaining' = out.codon2_remaining
                    /\ idx' = idx + 1
                    /\ UNCHANGED <<pc, result>>
    /\ UNCHANGED inputs
    /\ UNCHANGED <<genes_vars, rt_vars, build_vars, write_vars, interval_vars>>

\* one pass of the loop without a coding region
ExonLoopStep ==
    /\ pc = "exon_loop"
    /\ idx <= Len(exon_coords)
    /\ features' = NoCdsExonBlock(features, exon_coords[idx])
    /\ idx' = idx + 1
    /\ UNCHANGED <<inputs, pc, codon1_remaining, codon2_remaining, result>>
    /\ UNCHANGED <<genes_vars, rt_vars, build_vars, write_vars, interval_vars>>

\* Ok(features)
InferReturn ==
    /\ pc \in {"cds_loop", "exon_loop"}
    /\ idx > Len(exon_coords)
    /\ pc' = "done"
    /\ result' = "Ok"
    /\ UNCHANGED <<inputs, idx, features, codon1_remaining, codon2_remaining>>
    /\ UNCHANGED <<genes_vars, rt_vars, build_vars, write_vars, interval_vars>>

(***************************************************************************)
(* Reader::genes: the rows grouped by groupf, one result for each group.   *)
(***************************************************************************)
groupf(res) ==
    IF res.ok THEN <<res.val.gene_id, res.val.seq_name, res.val.strand>> ELSE None

\* record.and_then(|rec| rec.into_transcript())
and_then_into_transcript(res) == IF res.ok THEN into_transcript(res.val) ELSE res

\* groups of one row each
GroupLastOneRow(rs, first) == first

\* the last row of the group that starts at row first: the GroupBy ends a
\* group at the first row whose key differs from its head's
GroupLast(rs, first) ==
    CHOOSE q \in first..Len(rs) :
        /\ \A i \in first..q : groupf(rs[i]) = groupf(rs[first])
        /\ q < Len(rs) => groupf(rs[q + 1]) # groupf(rs[first])

\* a GroupBy that ends with the first group it was asked to leave early
NextGroupFirstOrStop(rs, rd, hd) ==
    IF hd # 0 THEN hd
    ELSE IF rd = 0 THEN (IF Len(rs) > 0 THEN 1 ELSE 0)
    ELSE 0

\* a next group that starts right after the row at which the last group was
\* left
NextGroupFirstNoSkip(rs, rd, hd) ==
    IF hd # 0 THEN hd
    ELSE IF rd = 0 THEN (IF Len(rs) > 0 THEN 1 ELSE 0)
    ELSE IF rd < Len(rs) THEN rd + 1
    ELSE 0

\* the row the next group starts at, or 0 at the end of the input: the row
\* held back when the last group was read to its end, or else the first row
\* after the rows of the last group that were still unread when it was dropped
NextGroupFirst(rs, rd, hd) ==
    IF hd # 0 THEN hd
    ELSE IF rd = 0 THEN (IF Len(rs) > 0 THEN 1 ELSE 0)
    ELSE IF \E i \in (rd + 1)..Len(rs) : groupf(rs[i]) # groupf(rs[rd])
    THEN CHOOSE i \in (rd + 1)..Len(rs) :
             /\ groupf(rs[i]) # groupf(rs[rd])
             /\ \A j \in (rd + 1)..(i - 1) : groupf(rs[j]) = groupf(rs[rd])
    ELSE 0

\* LinkedHashMap::insert, the map held as the sequence of its values in
\* order: a key already there gets the new value and moves to the end
LinkedHashMap_insert(transcripts, transcript) ==
    SelectSeq(transcripts, LAMBDA e : e.id # transcript.id) \o <<transcript>>

\* a loop that goes on after a failed row and keeps the last error
RECURSIVE GroupLoopLastError(_, _, _, _)
GroupLoopLastError(rs, i, last, acc) ==
    IF i > last THEN acc
    ELSE LET transcript == and_then_into_transcript(rs[i])
         IN  IF ~transcript.ok
             THEN GroupLoopLastError(rs, i + 1, last,
                      [acc EXCEPT !.failed = i, !.err = transcript])
             ELSE GroupLoopLastError(rs, i + 1, last,
                      [acc EXCEPT
                          !.transcripts = LinkedHashMap_insert(@, transcript.val),
                          !.gene_start = UMin(@, transcript.val.start),
                          !.gene_end = UMax(@, transcript.val.end)])

\* a loop that keeps the interval of the row it saw last
RECURSIVE GroupLoopLastInterval(_, _, _, _)
GroupLoopLastInterval(rs, i, last, acc) ==
    IF i > last THEN acc
    ELSE LET transcript == and_then_into_transcript(rs[i])
         IN  IF ~transcript.ok
             THEN [acc EXCEPT !.failed = i, !.err = transcript]
             ELSE GroupLoopLastInterval(rs, i + 1, last,
                      [acc EXCEPT
                          !.transcripts = LinkedHashMap_insert(@, transcript.val),
                          !.gene_start = transcript.val.start,
                          !.gene_end = transcript.val.end])

\* the for loop over the group's rows i..last: each row is converted and put
\* into the map, gene_start and gene_end follow; the first row that fails
\* ends the loop with its error (the ? operator), failed is that row
RECURSIVE GroupLoop(_, _, _, _)
GroupLoop(rs, i, last, acc) ==
    IF i > last THEN acc
    ELSE LET transcript == and_then_into_transcript(rs[i])
         IN  IF ~transcript.ok
             THEN [acc EXCEPT !.failed = i, !.err = transcript]
             ELSE GroupLoop(rs, i + 1, last,
                      [acc EXCEPT
                          !.transcripts = LinkedHashMap_insert(@, transcript.val),
                          !.gene_start = UMin(@, transcript.val.start),
                          !.gene_end = UMax(@, transcript.val.end)])

\* GBuilder::build of the model module, which is not among the sources: the
\* Gene of the specification (3, 4.3) from what the reader hands over
GBuilder_build(seq_name, start, end, id, strand_char, transcripts) ==
    IF ULt(end, start) THEN Err("IntervalError")
    ELSE IF Strand_from_char(strand_char) = "StrandCharError" THEN Err("StrandCharError")
    ELSE Ok([id |-> id, seq_name |-> seq_name, strand |-> Strand_from_char(strand_char),
             start |-> start, end |-> end, transcripts |-> transcripts])

\* u64::max_value() is 2^64 - 1, held as -1; u64::min_value() is 0
u64_max_value == 0 - 1

u64_min_value == 0

\* the closure of RefFlatGenes::next on the group first..last: the result,
\* and the row at which the group was left before its end (0: read to its end)
GroupResult(rs, first, last) ==
    IF groupf(rs[first]) = None
    THEN [result |-> Err(rs[first].err), failed |-> first]
    ELSE LET key == groupf(rs[first])
             acc == GroupLoop(rs, first, last,
                              [transcripts |-> <<>>, gene_start |-> u64_max_value,
                               gene_end |-> u64_min_value, failed |-> 0, err |-> None])
         IN  IF acc.failed # 0
             THEN [result |-> acc.err, failed |-> acc.failed]
             ELSE [result |-> GBuilder_build(key[2], acc.gene_start, acc.gene_end,
                                             key[1], key[3], acc.transcripts),
                   failed |-> 0]

\* RefFlatGenes::next.  A group left before its end (an Err key, a failed
\* row) has its unread rows skipped when the next group is asked for.
GenesNext ==
    /\ LET first == NextGroupFirst(rows, read, held)
       IN  IF first = 0
           THEN /\ ended' = TRUE
                /\ read' = Len(rows)
                /\ held' = 0
                /\ yielded' = yielded
           ELSE LET last == GroupLast(rows, first)
                    group == GroupResult(rows, first, last)
                IN  /\ yielded' = Append(yielded, group.result)
                    /\ ended' = ended
                    /\ IF group.failed # 0
                       THEN read' = group.failed /\ held' = 0
                       ELSE IF last < Len(rows)
                       THEN read' = last + 1 /\ held' = last + 1
                       ELSE read' = last /\ held' = 0
    /\ UNCHANGED <<rows, iter, infer_vars, rt_vars, build_vars, write_vars, interval_vars>>

(***************************************************************************)
(* Inputs of the genes iterator: up to MaxRows rows out of a pool with     *)
(* three keys that differ in one part each, rows that build, rows that     *)
(* fail to build and rows that fail to decode.                             *)
(***************************************************************************)
RowA1 == Ok(RefFlatRecord("G1", "T1", "chr1", "+", 0, 4, 4, 4, 1,
                          <<"0", ",">>, <<"4", ",">>))

RowA2 == Ok(RefFlatRecord("G1", "T2", "chr1", "+", 1, 5, 1, 4, 2,
                          <<"1", ",", "3", ",">>, <<"2", ",", "5", ",">>))

\* num_exons is 2, the exon fields hold one pair
RowABadCount == Ok(RefFlatRecord("G1", "T1", "chr1", "+", 0, 4, 4, 4, 2,
                                 <<"0", ",">>, <<"4", ",">>))

\* an exon end that is no number
RowABadCoord == Ok(RefFlatRecord("G1", "T2", "chr1", "+", 1, 5, 5, 5, 1,
                                 <<"1", ",">>, <<"x", ",">>))

RowB1 == Ok(RefFlatRecord("G2", "T3", "chr1", "+", 2, 6, 6, 6, 1,
                          <<"2", ",">>, <<"6", ",">>))

RowC1 == Ok(RefFlatRecord("G1", "T1", "chr1", "-", 0, 4, 4, 4, 1,
                          <<"0", ",">>, <<"4", ",">>))

RowD1 == Ok(RefFlatRecord("G1", "T1", "chr2", "+", 0, 4, 4, 4, 1,
                          <<"0", ",">>, <<"4", ",">>))

RowX1 == Err("Csv: too few fields")

RowX2 == Err("Csv: not a number")

RowPool == {RowA1, RowA2, RowABadCount, RowABadCoord, RowB1, RowC1, RowD1, RowX1, RowX2}

InferIdle ==
    /\ trx = <<0, 0>>
    /\ strand = "Unknown"
    /\ exon_coords = <<>>
    /\ cds_span = NoCds
    /\ pc = "idle"
    /\ idx = 1
    /\ features = <<>>
    /\ codon1_remaining = 3
    /\ codon2_remaining = 3
    /\ result = "none"

InitGenes ==
    /\ rows \in UNION {[1..n -> RowPool] : n \in 0..MaxRows}
    /\ read = 0
    /\ held = 0
    /\ yielded = <<>>
    /\ ended = FALSE
    /\ iter = "genes"
    /\ InferIdle
    /\ RoundTripIdle
    /\ BuildIdle
    /\ WriteIdle
    /\ IntervalIdle

NextGenes == GenesNext

SpecGenes == InitGenes /\ [][NextGenes]_vars

(***************************************************************************)
(* Reader::records and Reader::transcripts: one item for each row.         *)
(***************************************************************************)
\* self.inner.next(): the row that comes next, or 0 for None
inner_next(rs, rd) == IF rd < Len(rs) THEN rd + 1 ELSE 0

\* RefFlatRecords::next: the decoded row, or its error
RefFlatRecords_next ==
    /\ iter = "records"
    /\ ~ended
    /\ LET n == inner_next(rows, read)
       IN  IF n = 0
           THEN ended' = TRUE /\ UNCHANGED <<read, yielded>>
           ELSE /\ yielded' = Append(yielded, rows[n])
                /\ read' = n
                /\ ended' = ended
    /\ UNCHANGED <<rows, held, iter, infer_vars, rt_vars, build_vars, write_vars, interval_vars>>

\* a closure that gives the first error again for every row after it
transcripts_map_sticky(rs, n) ==
    IF \E j \in 1..(n - 1) : ~and_then_into_transcript(rs[j]).ok
    THEN and_then_into_transcript(
             rs[CHOOSE j \in 1..(n - 1) :
                    /\ ~and_then_into_transcript(rs[j]).ok
                    /\ \A i \in 1..(j - 1) : and_then_into_transcript(rs[i]).ok])
    ELSE and_then_into_transcript(rs[n])

\* the closure of RefFlatTranscripts::next on row n
transcripts_map(rs, n) == and_then_into_transcript(rs[n])

\* RefFlatTranscripts::next: the record outcome through into_transcript
RefFlatTranscripts_next ==
    /\ iter = "transcripts"
    /\ ~ended
    /\ LET n == inner_next(rows, read)
       IN  IF n = 0
           THEN ended' = TRUE /\ UNCHANGED <<read, yielded>>
           ELSE /\ yielded' = Append(yielded, transcripts_map(rows, n))
                /\ read' = n
                /\ ended' = ended
    /\ UNCHANGED <<rows, held, iter, infer_vars, rt_vars, build_vars, write_vars, interval_vars>>

\* rows that build, rows that fail to build, a row that fails to decode
RowsPool == {RowA1, RowA2, RowABadCount, RowABadCoord, RowX1}

InitRows ==
    /\ rows \in UNION {[1..n -> RowsPool] : n \in 0..MaxRows}
    /\ iter \in {"records", "transcripts"}
    /\ read = 0
    /\ held = 0
    /\ yielded = <<>>
    /\ ended = FALSE
    /\ InferIdle
    /\ RoundTripIdle
    /\ BuildIdle
    /\ WriteIdle
    /\ IntervalIdle

NextRows == RefFlatRecords_next \/ RefFlatTranscripts_next

SpecRows == InitRows /\ [][NextRows]_vars

(***************************************************************************)
(* A row read into a Transcript and written back.  The rows are made from  *)
(* exon lists with the transcript interval their span; a row departs from  *)
(* the writer's own rendering in at most one way.                          *)
(***************************************************************************)
Departures ==
    {"none", "leading zero", "plus sign", "more starts than ends", "no last comma",
     "num_exons", "strand"}

RtExonLists == {l \in AnyLists(MaxRtExons, Pairs(0, MaxRtCoord)) : Len(l) >= 1}

\* no coding region (coding_start = coding_end, anywhere) or cs < ce
RtCodingPairs == {p \in (0..MaxRtCoord) \X (0..MaxRtCoord) : p[1] <= p[2]}

\* the text of an exon field: the numerals, a comma after each
RowField(numerals) == join(numerals) \o <<",">>

RowOf(coords, coding, strand_char, departure) ==
    LET starts == [i \in 1..Len(coords) |-> u64_to_string(coords[i][1])]
        ends == [i \in 1..Len(coords) |-> u64_to_string(coords[i][2])]
        exon_starts ==
            CASE departure = "leading zero" -> <<"0">> \o RowField(starts)
              [] departure = "plus sign" -> <<"+">> \o RowField(starts)
              [] departure = "more starts than ends" -> RowField(starts) \o <<"9", ",">>
              [] OTHER -> RowField(starts)
        exon_ends == IF departure = "no last comma" THEN join(ends) ELSE RowField(ends)
    IN  RefFlatRecord("G1", "T1", "chr1",
                      IF departure = "strand" THEN "x" ELSE strand_char,
                      MinStart(coords), MaxEnd(coords), coding[1], coding[2],
                      IF departure = "num_exons" THEN Len(coords) + 1 ELSE Len(coords),
                      exon_starts, exon_ends)

InitRoundTrip ==
    /\ \E coords \in RtExonLists, coding \in RtCodingPairs,
          strand_char \in StrandChars, departure \in Departures :
           raw_row = RowOf(coords, coding, strand_char, departure)
    /\ rt_pc = "read"
    /\ converted = None
    /\ written_row = None
    /\ read_back = None
    /\ InferIdle
    /\ GenesIdle
    /\ BuildIdle
    /\ WriteIdle
    /\ IntervalIdle

\* RefFlatRecord::into_transcript
IntoTranscript ==
    /\ rt_pc = "read"
    /\ converted' = into_transcript(raw_row)
    /\ rt_pc' = IF into_transcript(raw_row).ok THEN "write" ELSE "rejected"
    /\ UNCHANGED <<raw_row, written_row, read_back, infer_vars, genes_vars, build_vars, write_vars, interval_vars>>

\* Writer::write_transcript
WriteTranscript ==
    /\ rt_pc = "write"
    /\ written_row' = write_transcript(converted.val)
    /\ rt_pc' = "done"
    /\ UNCHANGED <<raw_row, converted, read_back, infer_vars, genes_vars, build_vars, write_vars, interval_vars>>

\* the written row read again: RefFlatRecord::into_transcript
ReadBack ==
    /\ rt_pc = "done"
    /\ read_back' = into_transcript(written_row)
    /\ rt_pc' = "read back"
    /\ UNCHANGED <<raw_row, converted, written_row, infer_vars, genes_vars, build_vars, write_vars, interval_vars>>

NextRoundTrip == IntoTranscript \/ WriteTranscript \/ ReadBack

SpecRoundTrip == InitRoundTrip /\ [][NextRoundTrip]_vars

(***************************************************************************)
(* The builders at work.  A call is TxFeatureBuilder::build,               *)
(* TranscriptBuilder::build on the fields its setters can leave, or        *)
(* resolve_transcript_features itself without exon coordinates.  The exon  *)
(* lists are the ascending ones, and those with the order reversed or with *)
(* one pair turned round or emptied, and the empty list.                   *)
(***************************************************************************)
RECURSIVE AscListsTo(_, _, _)
AscListsTo(n, lo, hi) ==
    IF n = 0 THEN {<<>>}
    ELSE UNION {{<<p>> \o t : t \in AscListsTo(n - 1, p[2], hi)} : p \in Pairs(lo, hi)}

Reversed(l) == [i \in 1..Len(l) |-> l[Len(l) + 1 - i]]

BuildAscLists == UNION {AscListsTo(n, 0, MaxBuildCoord) : n \in 1..MaxBuildExons}

BuildExonLists ==
    {<<>>} \cup BuildAscLists \cup {Reversed(l) : l \in BuildAscLists}
    \cup UNION {{[l EXCEPT ![i] = <<l[i][2], l[i][1]>>] : i \in 1..Len(l)} : l \in BuildAscLists}
    \cup UNION {{[l EXCEPT ![i] = <<l[i][1], l[i][1]>>] : i \in 1..Len(l)} : l \in BuildAscLists}

BuildCoordPairs == (0..MaxBuildCoord) \X (0..MaxBuildCoord)

StrandOptions == Strands \cup {"None"}

\* a char that is no strand among them
StrandCharOptions == StrandChars \cup {"x", "None"}

Builder(fn, p, strand_v, strand_char, coords, cdsc) ==
    [fn |-> fn, start |-> p[1], end |-> p[2], strand |-> strand_v,
     strand_char |-> strand_char, features |-> None, exon_coords |-> coords,
     cds_coord |-> cdsc]

TxFeatureBuilders ==
    {Builder("TxFeatureBuilder", p, s, c, None, NoCds) :
        p \in BuildCoordPairs, s \in StrandOptions, c \in StrandCharOptions}

\* new, strand, strand_char, exon_and_cds_coords with an exon list out of
\* lists: a coding pair comes with exon coordinates
TranscriptBuilders(lists) ==
    {Builder("TranscriptBuilder", p, s, c, None, NoCds) :
        p \in BuildCoordPairs, s \in StrandOptions, c \in StrandCharOptions}
    \cup {Builder("TranscriptBuilder", p, s, c, Some(l), k) :
             p \in BuildCoordPairs, s \in StrandOptions, c \in StrandCharOptions,
             l \in lists, k \in {NoCds} \cup BuildCoordPairs}

\* resolve_transcript_features with no features and no exon coordinates
DirectCalls ==
    {Builder("resolve_transcript_features", p, s, "None", None, k) :
        p \in {q \in BuildCoordPairs : q[1] <= q[2]}, s \in Strands,
        k \in {NoCds} \cup BuildCoordPairs}

InitBuild ==
    /\ builder \in TxFeatureBuilders \cup TranscriptBuilders(BuildExonLists) \cup DirectCalls
    /\ build_pc = "new"
    /\ build_result = None
    /\ InferIdle
    /\ GenesIdle
    /\ RoundTripIdle
    /\ WriteIdle
    /\ IntervalIdle

\* TxFeatureBuilder::build
TxFeatureBuilder_build ==
    /\ build_pc = "new"
    /\ builder.fn = "TxFeatureBuilder"
    /\ LET head == build_interval_and_strand(builder)
       IN  build_result' = IF head.ok
                           THEN Ok([start |-> head.val.interval[1],
                                    end |-> head.val.interval[2],
                                    strand |-> head.val.strand])
                           ELSE head
    /\ build_pc' = "done"
    /\ UNCHANGED <<builder, infer_vars, genes_vars, rt_vars, write_vars, interval_vars>>

\* resolve_transcript_features on an interval and a strand: its result, or
\* infer_features set going
ResolveFeatures(interval, strand_v) ==
    LET fx == resolve_transcript_features(builder.features, builder.exon_coords,
                                          builder.cds_coord)
    IN  IF fx.infer
        THEN /\ trx' = interval
             /\ strand' = strand_v
             /\ exon_coords' = builder.exon_coords[1]
             /\ cds_span' = builder.cds_coord
             /\ pc' = "start"
             /\ build_pc' = "infer"
             /\ UNCHANGED <<idx, features, codon1_remaining, codon2_remaining, result,
                            build_result>>
        ELSE /\ build_result' = IF ~fx.res.ok THEN fx.res
                                ELSE IF builder.fn = "TranscriptBuilder"
                                THEN Ok(Transcript(interval, strand_v, fx.res.val))
                                ELSE fx.res
             /\ build_pc' = "done"
             /\ UNCHANGED infer_vars

\* TranscriptBuilder::build, up to the call of infer_features
TranscriptBuilder_build ==
    /\ build_pc = "new"
    /\ builder.fn = "TranscriptBuilder"
    /\ LET head == build_interval_and_strand(builder)
       IN  IF ~head.ok
           THEN /\ build_result' = head
                /\ build_pc' = "done"
                /\ UNCHANGED infer_vars
           ELSE ResolveFeatures(head.val.interval, head.val.strand)
    /\ UNCHANGED <<builder, genes_vars, rt_vars, write_vars, interval_vars>>

\* resolve_transcript_features called on its own
ResolveTranscriptFeatures ==
    /\ build_pc = "new"
    /\ builder.fn = "resolve_transcript_features"
    /\ ResolveFeatures(<<builder.start, builder.end>>, builder.strand)
    /\ UNCHANGED <<builder, genes_vars, rt_vars, write_vars, interval_vars>>

\* infer_features has returned: its error goes up through the ?, its
\* features go into the Transcript; a panic unwinds through the caller
BuildReturn ==
    /\ build_pc = "infer"
    /\ pc = "done"
    /\ build_result' = IF result # "Ok" THEN Err(result)
                       ELSE IF builder.fn = "TranscriptBuilder"
                       THEN Ok(Transcript(trx, strand, features))
                       ELSE Ok(features)
    /\ build_pc' = "done"
    /\ UNCHANGED <<builder, infer_vars, genes_vars, rt_vars, write_vars, interval_vars>>

NextBuild ==
    \/ TxFeatureBuilder_build
    \/ TranscriptBuilder_build
    \/ ResolveTranscriptFeatures
    \/ InferStart
    \/ CdsLoopStep
    \/ ExonLoopStep
    \/ InferReturn
    \/ BuildReturn

SpecBuild == InitBuild /\ [][NextBuild]_vars

(***************************************************************************)
(* The writer at work on a gene.                                           *)
(***************************************************************************)
\* transcripts as the reader builds them, one of them of another gene id and
\* one with an empty gene_id
WgTranscripts ==
    {and_then_into_transcript(RowA1).val, and_then_into_transcript(RowA2).val,
     and_then_into_transcript(RowB1).val,
     [and_then_into_transcript(RowB1).val EXCEPT !.id = "T4", !.gene_id = ""]}

\* the maps of up to MaxGeneTranscripts transcripts, each id once
WgTranscriptMaps ==
    {m \in UNION {[1..n -> WgTranscripts] : n \in 0..MaxGeneTranscripts} :
        \A i, j \in 1..Len(m) : i # j => m[i].id # m[j].id}

\* a gene id, or "None" for a gene without id
WgGeneIds == {"G1", "G2", "None"}

InitWriteGene ==
    /\ \E id \in WgGeneIds, transcripts \in WgTranscriptMaps :
           wg_gene = GBuilder_build("chr1", 0, MaxCoord, id, "+", transcripts).val
    /\ wg_pc = "write"
    /\ wg_rows = None
    /\ InferIdle
    /\ GenesIdle
    /\ RoundTripIdle
    /\ BuildIdle
    /\ IntervalIdle

\* Writer::write_gene
WriteGene ==
    /\ wg_pc = "write"
    /\ wg_rows' = write_gene(wg_gene)
    /\ wg_pc' = "done"
    /\ UNCHANGED <<wg_gene, infer_vars, genes_vars, rt_vars, build_vars, interval_vars>>

NextWriteGene == WriteGene

SpecWriteGene == InitWriteGene /\ [][NextWriteGene]_vars

(***************************************************************************)
(* NamedInterval: the predicates on two intervals.                         *)
(***************************************************************************)
\* an interval of the annotation model, start <= end
Interval(start, end) == [start |-> start, end |-> end]

\* an is_adjacent that looks at one side only
is_adjacent_one_side(self, other) == self.end = other.start

\* NamedInterval::overlaps
overlaps(self, other) == self.start < other.end /\ other.start < self.end

\* NamedInterval::envelops
envelops(self, other) == self.start <= other.start /\ self.end >= other.end

\* NamedInterval::is_adjacent
is_adjacent(self, other) == self.end = other.start \/ self.start = other.end

\* the intervals with coordinates up to MaxIvCoord, those of width 0 too
Intervals ==
    {iv \in {Interval(start, end) : start \in 0..MaxIvCoord, end \in 0..MaxIvCoord} :
        iv.start <= iv.end}

InitIntervals ==
    /\ \E a \in Intervals, b \in Intervals : iv_pair = <<a, b>>
    /\ iv_pc = "compare"
    /\ iv_answers = None
    /\ InferIdle
    /\ GenesIdle
    /\ RoundTripIdle
    /\ BuildIdle
    /\ WriteIdle

\* overlaps, envelops and is_adjacent called on the pair, each way round
Compare ==
    /\ iv_pc = "compare"
    /\ iv_answers' = [overlaps_ab |-> overlaps(iv_pair[1], iv_pair[2]),
                      overlaps_ba |-> overlaps(iv_pair[2], iv_pair[1]),
                      envelops_ab |-> envelops(iv_pair[1], iv_pair[2]),
                      envelops_ba |-> envelops(iv_pair[2], iv_pair[1]),
                      is_adjacent_ab |-> is_adjacent(iv_pair[1], iv_pair[2]),
                      is_adjacent_ba |-> is_adjacent(iv_pair[2], iv_pair[1])]
    /\ iv_pc' = "done"
    /\ UNCHANGED <<iv_pair, infer_vars, genes_vars, rt_vars, build_vars, write_vars>>

NextIntervals == Compare

SpecIntervals == InitIntervals /\ [][NextIntervals]_vars

Next == InferStart \/ CdsLoopStep \/ ExonLoopStep \/ InferReturn

Spec == Init /\ [][Next]_vars

SpecAnyOrder == InitAnyOrder /\ [][Next]_vars

(***************************************************************************)
(* Properties of the inferred sub-features.                                *)
(***************************************************************************)
Returned == pc = "done" /\ result = "Ok"

\* ascending, non-overlapping, each start < end, spanning the transcript
ValidExonList ==
    /\ Len(exon_coords) > 0
    /\ \A i \in 1..Len(exon_coords) : exon_coords[i][1] < exon_coords[i][2]
    /\ \A i \in 1..(Len(exon_coords) - 1) : exon_coords[i][2] <= exon_coords[i + 1][1]
    /\ exon_coords[1][1] = trx[1]
    /\ exon_coords[Len(exon_coords)][2] = trx[2]

\* a coding pair cs < ce enveloped by the exon span
EnvelopedCoding ==
    /\ cds_span # NoCds
    /\ cds_span[1] < cds_span[2]
    /\ exon_coords[1][1] <= cds_span[1]
    /\ cds_span[2] <= exon_coords[Len(exon_coords)][2]

Bases == 0..(MaxCoord + 1)

InExon(b) == \E i \in 1..Len(exon_coords) : exon_coords[i][1] <= b /\ b < exon_coords[i][2]

InCoding(b) == cds_span[1] <= b /\ b < cds_span[2]

\* how many returned sub-features of a kind in K contain base b
Covering(K, b) ==
    Cardinality({i \in 1..Len(features) :
                    /\ features[i].kind \in K
                    /\ features[i].start <= b
                    /\ b < features[i].end})

\* the summed span of the returned sub-features of kind k
RECURSIVE SpanSum(_, _)
SpanSum(fxs, k) ==
    IF fxs = <<>> THEN 0
    ELSE (IF Head(fxs).kind = k THEN span(Head(fxs)) ELSE 0) + SpanSum(Tail(fxs), k)

UtrKinds == {"UTR", "UTR5", "UTR3"}

\* C1: for a valid exon list and an enveloped coding pair cs < ce, the CDS
\* sub-features returned cover exactly the exon bases inside [cs, ce): each
\* such base lies in exactly one CDS interval, every other base in none.
C1_CdsCoversCoding ==
    (Returned /\ ValidExonList /\ EnvelopedCoding) =>
        \A b \in Bases :
            Covering({"CDS"}, b) = IF InExon(b) /\ InCoding(b) THEN 1 ELSE 0

\* C2: for a valid exon list and an enveloped coding pair on the Forward or
\* Reverse strand, the StartCodon spans sum to 3 and the StopCodon spans
\* sum to 3.
C2_CodonsSumToThree ==
    (Returned /\ ValidExonList /\ EnvelopedCoding /\ strand \in {"Forward", "Reverse"}) =>
        /\ SpanSum(features, "StartCodon") = 3
        /\ SpanSum(features, "StopCodon") = 3

\* C3: for a valid exon list and an enveloped coding pair cs < ce, the
\* UTR-kind sub-features returned cover exactly the exon bases outside
\* [cs, ce): each such base lies in exactly one UTR-kind interval, and no
\* base of [cs, ce) lies in one.
C3_UtrCoversNonCoding ==
    (Returned /\ ValidExonList /\ EnvelopedCoding) =>
        \A b \in Bases :
            Covering(UtrKinds, b) = IF InExon(b) /\ ~InCoding(b) THEN 1 ELSE 0

\* C4: for a valid exon list without a coding region infer_features returns
\* exactly one Exon sub-feature per input pair, in input order, with the
\* pair's start and end, and nothing else.
C4_ExonPerPair ==
    (pc = "done" /\ ValidExonList /\ cds_span = NoCds) =>
        /\ result = "Ok"
        /\ features = [i \in 1..Len(exon_coords) |->
                          make_feature("Exon", exon_coords[i][1], exon_coords[i][2])]

C4_Witness ==
    /\ Returned
    /\ ValidExonList
    /\ cds_span = NoCds
    /\ Len(exon_coords) >= 2
    /\ Len(features) = Len(exon_coords)

(***************************************************************************)
(* The span check, with the exon pairs in any order.                       *)
(***************************************************************************)
\* C10: infer_features fails with SubFeatureIntervalError whenever the
\* minimum of the exon starts differs from the transcript start or the
\* maximum of the exon ends from the transcript end, whatever the order of
\* the pairs; when both are equal it does not fail on this check (so pairs
\* with start < end and no coding pair give Ok).
C10_SpanCheckAnyOrder ==
    (pc = "done" /\ Len(exon_coords) > 0) =>
        IF MinStart(exon_coords) # trx[1] \/ MaxEnd(exon_coords) # trx[2]
        THEN result = "SubFeatureIntervalError"
        ELSE ((\A i \in 1..Len(exon_coords) : exon_coords[i][1] < exon_coords[i][2])
              /\ cds_span = NoCds) => result = "Ok"

(***************************************************************************)
(* Properties of the genes iterator.  The runs are told here from the rows *)
(* alone: a run is a longest stretch of neighbouring rows that are all     *)
(* undecodable or all decoded with one gene id, sequence name and strand.  *)
(***************************************************************************)
SameRun(i, j) ==
    /\ rows[i].ok = rows[j].ok
    /\ rows[i].ok => /\ rows[i].val.gene_id = rows[j].val.gene_id
                     /\ rows[i].val.seq_name = rows[j].val.seq_name
                     /\ rows[i].val.strand = rows[j].val.strand

\* the runs of rows i.., in order, each as <<first row, last row>>
RECURSIVE RunsFrom(_)
RunsFrom(i) ==
    IF i > Len(rows) THEN <<>>
    ELSE LET last == CHOOSE q \in i..Len(rows) :
                         /\ \A j \in i..q : SameRun(i, j)
                         /\ q < Len(rows) => ~SameRun(i, q + 1)
         IN  <<<<i, last>>>> \o RunsFrom(last + 1)

Runs == RunsFrom(1)

RunRows(run) == run[1]..run[2]

\* what each row of the pool gives when it is decoded and built by itself
Built == [r \in RowPool |-> and_then_into_transcript(r)]

RunBuilds(run) == \A i \in RunRows(run) : Built[rows[i]].ok

\* the gene g carries the key of row i
GeneOfKey(g, i) ==
    /\ rows[i].ok
    /\ g.id = rows[i].val.gene_id
    /\ g.seq_name = rows[i].val.seq_name
    /\ g.strand = Strand_from_char(rows[i].val.strand)

\* C5: the results are one for each run of neighbouring rows with one key,
\* in input order: the k-th result comes from the k-th run (a Gene carries
\* the run's key and transcripts of the run's rows only, an error is the
\* error of one of the run's rows), there are never more results than runs,
\* and the sequence has ended exactly when every run has given its result;
\* so rows with one gene id on both sides of another key give two Genes.
C5_OneResultPerRun ==
    LET runs == Runs
    IN  /\ Len(yielded) <= Len(runs)
        /\ ended => Len(yielded) = Len(runs)
        /\ \A k \in 1..Len(yielded) :
              IF yielded[k].ok
              THEN /\ GeneOfKey(yielded[k].val, runs[k][1])
                   /\ \A n \in 1..Len(yielded[k].val.transcripts) :
                         \E i \in RunRows(runs[k]) :
                             /\ Built[rows[i]].ok
                             /\ yielded[k].val.transcripts[n] = Built[rows[i]].val
              ELSE \E i \in RunRows(runs[k]) :
                       ~Built[rows[i]].ok /\ yielded[k] = Built[rows[i]]

\* two Genes with one gene id, a Gene of another key between them, then the end
C5_Witness ==
    /\ ended
    /\ \E k \in 1..(Len(yielded) - 2) :
          /\ yielded[k].ok /\ yielded[k + 1].ok /\ yielded[k + 2].ok
          /\ yielded[k].val.id = yielded[k + 2].val.id
          /\ yielded[k].val.seq_name = yielded[k + 2].val.seq_name
          /\ yielded[k].val.strand = yielded[k + 2].val.strand
          /\ yielded[k].val.id # yielded[k + 1].val.id

\* C6: a run of n rows that all build gives one Gene that holds exactly the
\* n transcripts of its rows, in row order, whatever their names.
C6_GeneHoldsEveryRow ==
    LET runs == Runs
    IN  \A k \in 1..Len(yielded) :
            RunBuilds(runs[k]) =>
                /\ yielded[k].ok
                /\ yielded[k].val.transcripts =
                       [n \in 1..(runs[k][2] - runs[k][1] + 1) |->
                           Built[rows[runs[k][1] + n - 1]].val]

\* C7: the result of a run with a row that failed to decode or to build is
\* the error of the first such row of the run, and not a Gene.
C7_FirstErrorOfRun ==
    LET runs == Runs
    IN  \A k \in 1..Len(yielded) :
            ~RunBuilds(runs[k]) =>
                LET f == CHOOSE i \in RunRows(runs[k]) :
                             /\ ~Built[rows[i]].ok
                             /\ \A j \in runs[k][1]..(i - 1) : Built[rows[j]].ok
                IN  /\ ~yielded[k].ok
                    /\ yielded[k] = Built[rows[f]]

\* a result given for a run that has two failing rows with different errors,
\* the first of them after a row that builds
C7_Witness ==
    \E k \in 1..Len(yielded) :
        \E i, j \in RunRows(Runs[k]) :
            /\ Runs[k][1] < i /\ i < j
            /\ ~Built[rows[i]].ok /\ ~Built[rows[j]].ok
            /\ Built[rows[i]] # Built[rows[j]]
            /\ ~yielded[k].ok

\* the k-th run is a run of undecodable rows between two runs with one key
Sandwiched(runs, k) ==
    /\ 1 < k /\ k < Len(runs)
    /\ ~rows[runs[k][1]].ok
    /\ SameRun(runs[k - 1][1], runs[k + 1][1])

\* C8 as stated: when an undecodable row sits among neighbouring rows that
\* otherwise share one key, no Gene comes from those rows, and every later
\* run with another key that builds still gives its Gene.
C8_NoGeneAroundMalformed ==
    LET runs == Runs
    IN  \A k \in 1..Len(yielded) :
            /\ (Sandwiched(runs, k + 1) \/ Sandwiched(runs, k - 1)) => ~yielded[k].ok
            /\ (rows[runs[k][1]].ok /\ RunBuilds(runs[k])
                  /\ ~Sandwiched(runs, k + 1) /\ ~Sandwiched(runs, k - 1))
                   => yielded[k].ok

\* C8, amended: an undecodable row makes a run of its own with the
\* undecodable rows next to it; that run gives one result, the error of its
\* first row; the rows before it and the rows after it are runs of their
\* own even when they share one key, and each of them that builds gives its
\* own Gene with its own rows only; once the sequence has ended every run,
\* those after the undecodable row too, has given its result.
C8_MalformedRowOwnRun ==
    LET runs == Runs
    IN  /\ ended => Len(yielded) = Len(runs)
        /\ \A k \in 1..Len(yielded) :
              /\ ~rows[runs[k][1]].ok => yielded[k] = rows[runs[k][1]]
              /\ (rows[runs[k][1]].ok /\ RunBuilds(runs[k])) =>
                    /\ yielded[k].ok
                    /\ GeneOfKey(yielded[k].val, runs[k][1])
                    /\ {yielded[k].val.transcripts[n].id :
                            n \in 1..Len(yielded[k].val.transcripts)}
                         = {rows[i].val.transcript_name : i \in RunRows(runs[k])}

\* the end of rows A X A B: Gene, error, Gene, Gene
C8_Witness ==
    /\ ended
    /\ \E k \in 2..(Len(yielded) - 2) :
          /\ Sandwiched(Runs, k)
          /\ yielded[k - 1].ok /\ ~yielded[k].ok /\ yielded[k + 1].ok
          /\ yielded[k + 2].ok
          /\ yielded[k + 2].val.id # yielded[k + 1].val.id

(***************************************************************************)
(* Properties of the round trip.                                           *)
(***************************************************************************)
\* the numerals of a field that is a comma after each of one or more pieces
RECURSIVE Pieces(_)
Pieces(s) ==
    IF s = <<>> THEN <<>>
    ELSE LET c == CHOOSE i \in 1..Len(s) : s[i] = "," /\ \A j \in 1..(i - 1) : s[j] # ","
         IN  <<SubSeq(s, 1, c - 1)>> \o Pieces(SubSeq(s, c + 1, Len(s)))

\* a decimal numeral as the writer prints it: digits only, no sign, and no
\* leading zero but in "0" itself
PlainNumeral(piece) ==
    /\ piece # <<>>
    /\ \A i \in 1..Len(piece) : piece[i] \in {DigitChars[d] : d \in 1..Len(DigitChars)}
    /\ Len(piece) > 1 => piece[1] # "0"

\* plain numerals, a comma after each one
PlainField(s) ==
    /\ s # <<>>
    /\ s[Len(s)] = ","
    /\ \A n \in 1..Len(Pieces(s)) : PlainNumeral(Pieces(s)[n])

PlainRow(rec) ==
    /\ PlainField(rec.exon_starts)
    /\ PlainField(rec.exon_ends)
    /\ Len(Pieces(rec.exon_starts)) = Len(Pieces(rec.exon_ends))

\* C9 as stated: every accepted row comes back from into_transcript and
\* write_transcript equal to itself in every field, coding_start and
\* coding_end of a row without coding region among them.
C9_RoundTripEveryRow == rt_pc = "done" => written_row = raw_row

\* C9, amended: an accepted row whose two exon fields are plain numerals
\* with a comma after each, as many in the one as in the other, comes back
\* equal in every field when it has a coding region or has coding_start =
\* coding_end = trx_end; with coding_start = coding_end elsewhere it comes
\* back with both at trx_end and equal in every other field.
C9_RoundTripPlainRow ==
    (rt_pc = "done" /\ PlainRow(raw_row)) =>
        IF raw_row.coding_start = raw_row.coding_end
        THEN written_row = [raw_row EXCEPT !.coding_start = raw_row.trx_end,
                                           !.coding_end = raw_row.trx_end]
        ELSE written_row = raw_row

\* a plain row of two exons without coding region, its coding_start and
\* coding_end at trx_end, written back as it was
C9_Witness ==
    /\ rt_pc = "done"
    /\ PlainRow(raw_row)
    /\ raw_row.num_exons > 1
    /\ raw_row.coding_start = raw_row.coding_end
    /\ raw_row.coding_end = raw_row.trx_end
    /\ written_row = raw_row

(***************************************************************************)
(* The builders.                                                           *)
(***************************************************************************)
\* TranscriptBuilder::build has returned a Transcript
BuiltTranscript ==
    build_pc = "done" /\ builder.fn = "TranscriptBuilder" /\ build_result.ok

ExonFeatureAt(fxs) == {i \in 1..Len(fxs) : fxs[i].kind = "Exon"}

\* C11: every Transcript that TranscriptBuilder::build returns has Exon
\* sub-features, the least start among them is the transcript start and the
\* greatest end among them is the transcript end, whatever the builder was
\* given: exon coordinates in any order, none at all, a coding pair or none
C11_ExonsSpanTranscript ==
    BuiltTranscript =>
        LET t == build_result.val
            exons == ExonFeatureAt(t.features)
        IN  /\ exons # {}
            /\ \E i \in exons : t.features[i].start = t.start
            /\ \A i \in exons : t.start <= t.features[i].start
            /\ \E i \in exons : t.features[i].end = t.end
            /\ \A i \in exons : t.features[i].end <= t.end

(***************************************************************************)
(* Rows whose exon fields and exon count disagree.                         *)
(***************************************************************************)
\* the number of comma-separated values of a field: its stretches without a
\* comma
ValueCount(s) ==
    Cardinality({i \in 1..Len(s) : s[i] # "," /\ (i = 1 \/ s[i - 1] = ",")})

\* C12: the conversion of a row fails whenever num_exons differs from the
\* number of comma-separated values in exon_starts or from that in
\* exon_ends, so a row whose two exon fields differ in length is rejected
C12_CountMismatchRejected ==
    (/\ rt_pc # "read"
     /\ \/ raw_row.num_exons # ValueCount(raw_row.exon_starts)
        \/ raw_row.num_exons # ValueCount(raw_row.exon_ends))
    => ~converted.ok

(***************************************************************************)
(* The strand a builder resolves.                                          *)
(***************************************************************************)
\* a build function has returned, and its interval was a valid one
BuiltPastInterval ==
    /\ build_pc = "done"
    /\ builder.fn \in {"TxFeatureBuilder", "TranscriptBuilder"}
    /\ builder.start <= builder.end

StrandErrors == {"StrandCharError", "ConflictingStrandError", "UnspecifiedStrandError"}

\* what the claim says a strand character parses to
CharStrand(c) == IF c = "+" THEN "Forward" ELSE IF c = "-" THEN "Reverse" ELSE "Unknown"

\* the build went on with strand s: what it returned carries s, or it failed
\* later, in infer_features, which was given s
ResolvedTo(s) ==
    IF build_result.ok THEN build_result.val.strand = s
    ELSE build_result.err \notin StrandErrors /\ pc = "done" /\ strand = s

FailedWith(e) == ~build_result.ok /\ build_result.err = e

\* C13: with neither an enum nor a character the strand resolution fails
\* with UnspecifiedStrandError; an enum alone is taken; a character alone is
\* parsed, StrandCharError when it is none of + - .; with both, the enum is
\* taken when the parsed character equals it, ConflictingStrandError when it
\* differs, StrandCharError when the character does not parse
C13_StrandResolution ==
    BuiltPastInterval =>
        LET sv == builder.strand
            sc == builder.strand_char
        IN  IF sv = "None" /\ sc = "None" THEN FailedWith("UnspecifiedStrandError")
            ELSE IF sc = "None" THEN ResolvedTo(sv)
            ELSE IF sc \notin {"+", "-", "."} THEN FailedWith("StrandCharError")
            ELSE IF sv = "None" THEN ResolvedTo(CharStrand(sc))
            ELSE IF CharStrand(sc) = sv THEN ResolvedTo(sv)
            ELSE FailedWith("ConflictingStrandError")

\* an enum and a character that parses to another strand
C13_Witness ==
    /\ BuiltPastInterval
    /\ builder.strand = "Forward"
    /\ builder.strand_char = "-"
    /\ FailedWith("ConflictingStrandError")

(***************************************************************************)
(* The order of a build's validation.                                      *)
(***************************************************************************)
BuildDone == build_pc = "done" /\ builder.fn \in {"TxFeatureBuilder", "TranscriptBuilder"}

\* the strand inputs that cannot be resolved
BadStrandInput ==
    LET sv == builder.strand
        sc == builder.strand_char
    IN  \/ sv = "None" /\ sc = "None"
        \/ sc # "None" /\ sc \notin {"+", "-", "."}
        \/ sv # "None" /\ sc \in {"+", "-", "."} /\ CharStrand(sc) # sv

SubFeatureErrors == {"SubFeatureIntervalError", "IncompleteTranscriptError"}

\* C14: build validates the interval, then the strand, then the
\* sub-features, and reports the error of the first stage that fails:
\* start > end gives IntervalError whatever the strand and the coordinates
\* are, a valid interval with a bad strand input gives the strand error
\* whatever the exon and coding inputs are, and a sub-feature error is
\* reported only when interval and strand are both valid
C14_ValidationOrder ==
    BuildDone =>
        /\ builder.start > builder.end => FailedWith("IntervalError")
        /\ (builder.start <= builder.end /\ BadStrandInput)
               => (~build_result.ok /\ build_result.err \in StrandErrors)
        /\ (~build_result.ok /\ build_result.err \in SubFeatureErrors)
               => (builder.start <= builder.end /\ ~BadStrandInput)

\* every stage would fail: start > end, no strand, an exon pair turned round
C14_Witness ==
    /\ BuildDone
    /\ builder.fn = "TranscriptBuilder"
    /\ builder.start > builder.end
    /\ BadStrandInput
    /\ builder.exon_coords # None
    /\ \E i \in 1..Len(builder.exon_coords[1]) :
           builder.exon_coords[1][i][1] > builder.exon_coords[1][i][2]
    /\ FailedWith("IntervalError")

(***************************************************************************)
(* The kinds of the UTR and codon sub-features, and where the pieces of a  *)
(* split codon go.  In the returned list a codon piece of the coding start *)
(* side stands right before the CDS of its exon; one of the coding end     *)
(* side stands after a CDS, or before the Exon of the exon that follows.   *)
(***************************************************************************)
CodonKinds == {"StartCodon", "StopCodon"}

CsSideCodon(i) ==
    /\ features[i].kind \in CodonKinds
    /\ i < Len(features)
    /\ features[i + 1].kind = "CDS"

CeSideCodon(i) == features[i].kind \in CodonKinds /\ ~CsSideCodon(i)

\* C15: with a coding pair cs < ce, on Forward a UTR before cs is UTR5, a UTR
\* at or after ce is UTR3, the codon pieces at the cs side are StartCodon and
\* those at the ce side are StopCodon; on Reverse it is the other way round;
\* on Unknown there is no StartCodon or StopCodon at all and every UTR is of
\* kind UTR
C15_KindsByStrand ==
    (Returned /\ ValidExonList /\ EnvelopedCoding) =>
        \A i \in 1..Len(features) :
            LET f == features[i]
            IN  /\ (f.kind \in UtrKinds /\ f.end <= cds_span[1]) =>
                       f.kind = (CASE strand = "Forward" -> "UTR5"
                                   [] strand = "Reverse" -> "UTR3"
                                   [] strand = "Unknown" -> "UTR")
                /\ (f.kind \in UtrKinds /\ f.start >= cds_span[2]) =>
                       f.kind = (CASE strand = "Forward" -> "UTR3"
                                   [] strand = "Reverse" -> "UTR5"
                                   [] strand = "Unknown" -> "UTR")
                /\ strand = "Unknown" => f.kind \notin CodonKinds
                /\ CsSideCodon(i) =>
                       f.kind = IF strand = "Forward" THEN "StartCodon" ELSE "StopCodon"
                /\ CeSideCodon(i) =>
                       f.kind = IF strand = "Forward" THEN "StopCodon" ELSE "StartCodon"

\* on Reverse: a UTR3 before cs, a StopCodon at cs, a StartCodon at ce and a
\* UTR5 after ce
C15_Witness ==
    /\ Returned /\ ValidExonList /\ EnvelopedCoding
    /\ strand = "Reverse"
    /\ \E i \in 1..Len(features) :
           features[i].kind = "UTR3" /\ features[i].end <= cds_span[1]
    /\ \E i \in 1..Len(features) :
           features[i].kind = "UTR5" /\ features[i].start >= cds_span[2]
    /\ \E i \in 1..Len(features) :
           CsSideCodon(i) /\ features[i].kind = "StopCodon" /\ features[i].start = cds_span[1]
    /\ \E i \in 1..Len(features) :
           CeSideCodon(i) /\ features[i].kind = "StartCodon" /\ features[i].end = cds_span[2]

\* the sub-features pat stand in the returned list one after another
HasRun(pat) ==
    \E i \in 0..(Len(features) - Len(pat)) : \A j \in 1..Len(pat) : features[i + j] = pat[j]

Fx(kind, start, end) == [kind |-> kind, start |-> start, end |-> end]

Utr1Kind == IF strand = "Forward" THEN "UTR5" ELSE "UTR3"

Utr2Kind == IF strand = "Forward" THEN "UTR3" ELSE "UTR5"

Codon1Kind == IF strand = "Forward" THEN "StartCodon" ELSE "StopCodon"

Codon2Kind == IF strand = "Forward" THEN "StopCodon" ELSE "StartCodon"

KnownStrandCoding ==
    Returned /\ ValidExonList /\ EnvelopedCoding /\ strand \in {"Forward", "Reverse"}

\* cs lies inside exon j, 1 or 2 bases before its end, and exon j + 1 is an
\* interior coding exon
StartSplitAt(j) ==
    /\ j + 1 <= Len(exon_coords)
    /\ exon_coords[j][1] < cds_span[1]
    /\ exon_coords[j][2] - cds_span[1] \in {1, 2}
    /\ exon_coords[j + 1][2] < cds_span[2]

CsSideCodons == {i \in 1..Len(features) : CsSideCodon(i)}

Smaller(a, b) == IF a < b THEN a ELSE b

EndSplitAt(j) ==
    /\ j >= 2
    /\ cds_span[2] - exon_coords[j][1] \in {1, 2}
    /\ cds_span[2] < exon_coords[j][2]
    /\ cds_span[1] < exon_coords[j - 1][2]

Larger(a, b) == IF a < b THEN b ELSE a

\* C17: when ce lies k bases (1 or 2) after the start s of the exon [s, e)
\* that contains it and the previous exon ends at e_prev, the ce-side codon
\* comes as the pieces [e_prev - (3 - k), e_prev) and [s, ce): the first
\* after the previous exon's CDS and before the Exon feature of [s, e), the
\* second after the CDS [s, ce), followed by the ce-side UTR [ce, e)
C17_StopCodonSplit ==
    (/\ pc = "done"
     /\ ValidExonList
     /\ EnvelopedCoding
     /\ strand \in {"Forward", "Reverse"})
    => \A j \in 1..Len(exon_coords) :
           EndSplitAt(j) =>
               LET ce == cds_span[2]
                   s == exon_coords[j][1]
                   e == exon_coords[j][2]
                   s_prev == exon_coords[j - 1][1]
                   e_prev == exon_coords[j - 1][2]
                   k == ce - s
               IN  /\ result = "Ok"
                   /\ HasRun(<<Fx("CDS", Larger(s_prev, cds_span[1]), e_prev),
                               Fx(Codon2Kind, e_prev - (3 - k), e_prev),
                               Fx("Exon", s, e), Fx("CDS", s, ce),
                               Fx(Codon2Kind, s, ce), Fx(Utr2Kind, ce, e)>>)

(***************************************************************************)
(* The checks of infer_features, as a builder reaches them.                *)
(***************************************************************************)
\* infer_features was called for the builder and is over
InferOver == build_pc \in {"infer", "done"} /\ pc = "done"

BadPairAt(i) == exon_coords[i][1] >= exon_coords[i][2]

\* C18: infer_features fails with SubFeatureIntervalError whenever an exon
\* pair has start >= end, whatever the pair's position, the coding pair and
\* the strand, and it returns no sub-features
C18_BadPairRejected ==
    (InferOver /\ \E i \in 1..Len(exon_coords) : BadPairAt(i)) =>
        /\ result = "SubFeatureIntervalError"
        /\ features = <<>>
        /\ build_pc = "done" => FailedWith("SubFeatureIntervalError")

\* the bad pair is the last of two, the first pair and the interval agree
\* and a coding pair is given
C18_Witness ==
    /\ InferOver
    /\ build_pc = "done"
    /\ Len(exon_coords) = 2
    /\ ~BadPairAt(1)
    /\ BadPairAt(2)
    /\ trx = <<exon_coords[1][1], exon_coords[2][2]>>
    /\ cds_span # NoCds
    /\ FailedWith("SubFeatureIntervalError")

\* C19: building a transcript fails with IncompleteTranscriptError when the
\* exon list is empty, with or without a coding pair, and when a coding pair
\* is given but no exon coordinates at all
C19_IncompleteTranscript ==
    /\ (/\ build_pc = "done"
        /\ builder.fn = "TranscriptBuilder"
        /\ builder.start <= builder.end
        /\ ~BadStrandInput
        /\ builder.exon_coords = Some(<<>>))
       => FailedWith("IncompleteTranscriptError")
    /\ (/\ build_pc = "done"
        /\ builder.fn = "resolve_transcript_features"
        /\ builder.exon_coords = None
        /\ builder.cds_coord # NoCds)
       => FailedWith("IncompleteTranscriptError")

\* an empty exon list with a coding pair, through the builder
C19_Witness ==
    /\ build_pc = "done"
    /\ builder.fn = "TranscriptBuilder"
    /\ builder.exon_coords = Some(<<>>)
    /\ builder.cds_coord # NoCds
    /\ pc = "done"
    /\ FailedWith("IncompleteTranscriptError")

\* C20: given a valid exon list, infer_features fails with
\* SubFeatureIntervalError for every coding pair with cs > ce and for every
\* pair cs < ce that the exon span does not envelop, and it never fails on
\* the coding pair when cs < ce and the exon span envelops it
C20_CodingPairCheck ==
    (InferOver /\ ValidExonList /\ cds_span # NoCds) =>
        LET cs == cds_span[1]
            ce == cds_span[2]
            enveloped == exon_coords[1][1] <= cs /\ ce <= exon_coords[Len(exon_coords)][2]
        IN  /\ cs > ce => result = "SubFeatureIntervalError"
            /\ (cs < ce /\ ~enveloped) => result = "SubFeatureIntervalError"
            /\ (cs < ce /\ enveloped) => result \notin FeatureError

\* a valid list and a coding pair cs < ce that starts inside the exon span
\* and ends past it
C20_Witness ==
    /\ InferOver
    /\ ValidExonList
    /\ cds_span # NoCds
    /\ cds_span[1] < cds_span[2]
    /\ exon_coords[1][1] <= cds_span[1]
    /\ cds_span[2] > exon_coords[Len(exon_coords)][2]
    /\ result = "SubFeatureIntervalError"

\* the exon-only output: one Exon for each pair, in the order given
ExonOnly == [i \in 1..Len(exon_coords) |-> Fx("Exon", exon_coords[i][1], exon_coords[i][2])]

DegenerateCoding == cds_span # NoCds /\ cds_span[1] = cds_span[2]

\* C21: for a valid exon list and any c, infer_features with the coding pair
\* (c, c) returns what it returns with no coding pair, the exon-only output,
\* on every strand and also when c lies outside the exon span
C21_DegenerateCodingAsNone ==
    (InferOver /\ ValidExonList /\ (cds_span = NoCds \/ DegenerateCoding)) =>
        result = "Ok" /\ features = ExonOnly

\* a pair (c, c) past the end of the exon span, on the Reverse strand
C21_Witness ==
    /\ InferOver
    /\ ValidExonList
    /\ DegenerateCoding
    /\ cds_span[1] > exon_coords[Len(exon_coords)][2]
    /\ strand = "Reverse"
    /\ result = "Ok"
    /\ features = ExonOnly

(***************************************************************************)
(* The interval of a Gene.                                                 *)
(***************************************************************************)
\* C22: the interval of a Gene that the genes sequence yields is [least
\* transcript start, greatest transcript end) over all rows of its run
C22_GeneInterval ==
    LET runs == Runs
    IN  \A k \in 1..Len(yielded) :
            yielded[k].ok =>
                /\ \E i \in RunRows(runs[k]) : yielded[k].val.start = rows[i].val.trx_start
                /\ \A i \in RunRows(runs[k]) : yielded[k].val.start <= rows[i].val.trx_start
                /\ \E i \in RunRows(runs[k]) : yielded[k].val.end = rows[i].val.trx_end
                /\ \A i \in RunRows(runs[k]) : rows[i].val.trx_end <= yielded[k].val.end

\* a Gene of two rows: the first row has the least start, the last row the
\* greatest end
C22_Witness ==
    LET runs == Runs
    IN  \E k \in 1..Len(yielded) :
            /\ yielded[k].ok
            /\ runs[k][2] = runs[k][1] + 1
            /\ rows[runs[k][1]].val.trx_start < rows[runs[k][2]].val.trx_start
            /\ rows[runs[k][1]].val.trx_end < rows[runs[k][2]].val.trx_end
            /\ yielded[k].val.start = rows[runs[k][1]].val.trx_start
            /\ yielded[k].val.end = rows[runs[k][2]].val.trx_end

(***************************************************************************)
(* The records and the transcripts sequence.                               *)
(***************************************************************************)
\* what row k gives by itself in the sequence that is pulled
ItemOfRow(k) == IF iter = "records" THEN rows[k] ELSE Built[rows[k]]

\* C23: the records and the transcripts sequence yield one item for each
\* input row, in row order; a row that fails to decode or to build yields an
\* error at its own place, and the item at every place is what its own row
\* gives whatever the rows before it were: nothing halts, nothing is skipped
C23_OneItemPerRow ==
    iter \in {"records", "transcripts"} =>
        /\ Len(yielded) = read
        /\ Len(yielded) <= Len(rows)
        /\ ended => Len(yielded) = Len(rows)
        /\ \A k \in 1..Len(yielded) : yielded[k] = ItemOfRow(k)

\* transcripts: a row that fails to decode, one that fails to build, then a
\* row that builds, and the end
C23_Witness ==
    /\ iter = "transcripts"
    /\ ended
    /\ Len(rows) >= 3
    /\ ~rows[1].ok
    /\ rows[2].ok /\ ~yielded[2].ok
    /\ yielded[1] = rows[1]
    /\ yielded[3].ok

(***************************************************************************)
(* The coding columns of a written row.                                    *)
(***************************************************************************)
\* C24: write_transcript writes coding_start and coding_end equal to the
\* transcript's coding span when it has one, and otherwise both equal to the
\* transcript's end; such a row without coding region, read back, gives a
\* transcript without coding region
C24_CodingColumns ==
    /\ rt_pc \in {"done", "read back"} =>
           IF converted.val.coding # NoCds
           THEN /\ written_row.coding_start = converted.val.coding[1]
                /\ written_row.coding_end = converted.val.coding[2]
           ELSE /\ written_row.coding_start = converted.val.end
                /\ written_row.coding_end = converted.val.end
    /\ (rt_pc = "read back" /\ converted.val.coding = NoCds) =>
           read_back.ok /\ read_back.val.coding = NoCds

\* a transcript without coding region, written with both columns at its
\* end, which is not its start, and read back
C24_Witness ==
    /\ rt_pc = "read back"
    /\ converted.val.coding = NoCds
    /\ converted.val.start < converted.val.end
    /\ written_row.coding_start = converted.val.end
    /\ written_row.coding_end = converted.val.end
    /\ read_back.ok
    /\ read_back.val.coding = NoCds

(***************************************************************************)
(* The rows written for a gene.                                            *)
(***************************************************************************)
\* C25: write_gene writes exactly one row for each transcript of the gene,
\* in the order of the gene's transcripts, and every row carries the gene's
\* id in its gene_id column whatever the gene_id of the transcript is
C25_OneRowPerTranscript ==
    wg_pc = "done" =>
        /\ Len(wg_rows) = Len(wg_gene.transcripts)
        /\ \A i \in 1..Len(wg_rows) :
               /\ wg_rows[i].transcript_name = wg_gene.transcripts[i].id
               /\ [wg_rows[i] EXCEPT !.gene_id = ""]
                      = [write_transcript(wg_gene.transcripts[i]) EXCEPT !.gene_id = ""]
               /\ wg_gene.id # "None" => wg_rows[i].gene_id = wg_gene.id

\* a gene with an id and three transcripts, two of them with another gene_id
\* of their own, the last added not the last by name
C25_Witness ==
    /\ wg_pc = "done"
    /\ wg_gene.id = "G1"
    /\ Len(wg_rows) = 3
    /\ wg_gene.transcripts[1].gene_id = "G2"
    /\ wg_gene.transcripts[2].gene_id = ""
    /\ wg_gene.transcripts[3].gene_id = "G1"
    /\ wg_rows[1].transcript_name = "T3"
    /\ wg_rows[3].transcript_name = "T1"
    /\ \A i \in 1..3 : wg_rows[i].gene_id = "G1"

(***************************************************************************)
(* The unsigned arithmetic of the cds loop.                                *)
(***************************************************************************)
\* C26: for every exon list, coding pair, strand and transcript interval
\* infer_features ends with a sub-feature list or a FeatureError: no
\* subtraction on the unsigned coordinates goes below zero and no
\* sub-feature is made with start > end
C26_NoUnderflow == pc = "done" => result # "panic"

(***************************************************************************)
(* Sub-features and the exons they lie in.                                 *)
(***************************************************************************)
\* the sub-feature lies within one of the input exons
WithinAnExon(fx) ==
    \E j \in 1..Len(exon_coords) :
        exon_coords[j][1] <= fx.start /\ fx.end <= exon_coords[j][2]

\* C27: in every sub-feature list returned for a valid ascending
\* non-overlapping exon list, each sub-feature that is no Exon (the UTR
\* kinds, CDS, StartCodon, StopCodon) lies within the interval of some input
\* exon; a codon piece completed from the previous exon never starts before
\* that exon's start
C27_SubFeaturesWithinExons ==
    (Returned /\ ValidExonList) =>
        \A i \in 1..Len(features) :
            features[i].kind # "Exon" => WithinAnExon(features[i])

(***************************************************************************)
(* The codon counters of the cds loop.                                     *)
(***************************************************************************)
\* the sub-features of the given kind among fxs
OfKind(fxs, kind) == SelectSeq(fxs, LAMBDA fx : fx.kind = kind)

\* one pass of the cds loop over a valid exon list that did not panic
CounterStep ==
    (/\ pc = "cds_loop"
     /\ pc' = "cds_loop"
     /\ idx' = idx + 1
     /\ ValidExonList
     /\ strand \in {"Forward", "Reverse"})
    => LET pushed == SubSeq(features', Len(features) + 1, Len(features'))
       IN  /\ codon1_remaining' \in 0..3
           /\ codon2_remaining' \in 0..3
           /\ codon1_remaining' <= codon1_remaining
           /\ codon2_remaining' <= codon2_remaining
           /\ codon1_remaining - codon1_remaining' = SpanSum(pushed, Codon1Kind)
           /\ codon2_remaining - codon2_remaining' = SpanSum(pushed, Codon2Kind)
           /\ codon1_remaining = 0 => OfKind(pushed, Codon1Kind) = <<>>
           /\ codon2_remaining = 0 => OfKind(pushed, Codon2Kind) = <<>>

\* one pass of the cds loop with a strand that has no codons
CounterStepUnknown ==
    (pc = "cds_loop" /\ pc' = "cds_loop" /\ ValidExonList /\ strand = "Unknown")
    => /\ codon1_remaining' = 3
       /\ codon2_remaining' = 3
       /\ OfKind(features', "StartCodon") = <<>>
       /\ OfKind(features', "StopCodon") = <<>>

\* C28: during the exon loop of infer_features over an ascending
\* non-overlapping exon list both codon counters stay within 0..3 and never
\* increase; each codon piece pushed lowers its counter by exactly its span;
\* once a counter is 0 no later exon pushes a codon piece for that boundary
C28_CodonCounters == [][CounterStep /\ CounterStepUnknown]_vars

\* both counters at 0 at the end of a list of three exons, the cs-side codon
\* in two pieces, and an exon that came after its counter was 0
C28_Witness ==
    /\ Returned
    /\ ValidExonList
    /\ strand = "Forward"
    /\ Len(exon_coords) = 3
    /\ codon1_remaining = 0
    /\ codon2_remaining = 0
    /\ Len(OfKind(features, "StartCodon")) = 2
    /\ SpanSum(features, "StartCodon") = 3
    /\ SpanSum(features, "StopCodon") = 3

(***************************************************************************)
(* The rows of a run after a row that failed to build.                     *)
(***************************************************************************)
\* the first row of the run that fails to build
FirstFailing(run) ==
    CHOOSE i \in RunRows(run) :
        ~Built[rows[i]].ok /\ \A j \in run[1]..(i - 1) : Built[rows[j]].ok

\* a run with a key in which a row before its last row fails to build
FailsInMiddle(run) ==
    /\ rows[run[1]].ok
    /\ \E i \in run[1]..(run[2] - 1) : ~Built[rows[i]].ok

\* C29: when the build of a row fails in the middle of a run with a key, the
\* rows of the run after it are consumed and discarded: they appear in no
\* Gene (the run gives the error and nothing else), they start no run of
\* their own (the results are never more than the runs), and the next pull
\* gives the result of the next run, which has another key
C29_RestOfRunDiscarded ==
    LET runs == Runs
    IN  /\ Len(yielded) <= Len(runs)
        /\ ended => Len(yielded) = Len(runs)
        /\ \A k \in 1..Len(yielded) :
              FailsInMiddle(runs[k]) =>
                  /\ yielded[k] = Built[rows[FirstFailing(runs[k])]]
                  /\ (Len(yielded) = k /\ ~ended) =>
                         /\ read = FirstFailing(runs[k])
                         /\ NextGroupFirst(rows, read, held)
                                = IF k < Len(runs) THEN runs[k][2] + 1 ELSE 0
                  /\ k < Len(yielded) =>
                         /\ ~SameRun(runs[k][2], runs[k + 1][1])
                         /\ IF RunBuilds(runs[k + 1])
                            THEN /\ yielded[k + 1].ok
                                 /\ GeneOfKey(yielded[k + 1].val, runs[k + 1][1])
                                 /\ \A n \in 1..Len(yielded[k + 1].val.transcripts) :
                                       \E i \in RunRows(runs[k + 1]) :
                                           yielded[k + 1].val.transcripts[n] = Built[rows[i]].val
                            ELSE yielded[k + 1] = Built[rows[FirstFailing(runs[k + 1])]]

\* a run whose second row fails to build and whose third row builds, then
\* a run with another key that gives its Gene, then the end
C29_Witness ==
    LET runs == Runs
    IN  /\ ended
        /\ Len(runs) = 2
        /\ Len(yielded) = 2
        /\ FailsInMiddle(runs[1])
        /\ FirstFailing(runs[1]) = 2
        /\ runs[1][2] = 3
        /\ Built[rows[3]].ok
        /\ ~yielded[1].ok
        /\ yielded[2].ok
        /\ Len(yielded[2].val.transcripts) = 1

(***************************************************************************)
(* Overlap and adjacency of two intervals.                                 *)
(***************************************************************************)
\* C30: for all half-open intervals a and b with start <= end, those of
\* width 0 too, overlaps and is_adjacent are each symmetric, is_adjacent(a, b)
\* holds exactly when a.end = b.start or a.start = b.end, and is_adjacent
\* and overlaps are never both true of a pair
C30_OverlapAndAdjacency ==
    iv_pc = "done" =>
        LET a == iv_pair[1]
            b == iv_pair[2]
        IN  /\ iv_answers.overlaps_ab = iv_answers.overlaps_ba
            /\ iv_answers.is_adjacent_ab = iv_answers.is_adjacent_ba
            /\ iv_answers.is_adjacent_ab = (a.end = b.start \/ a.start = b.end)
            /\ ~(iv_answers.is_adjacent_ab /\ iv_answers.overlaps_ab)
            /\ ~(iv_answers.is_adjacent_ba /\ iv_answers.overlaps_ba)

\* an interval of width 0 at the start of another: adjacent from both
\* sides and not overlapping
C30_Witness ==
    /\ iv_pc = "done"
    /\ iv_pair[1].start < iv_pair[1].end
    /\ iv_pair[2].start = iv_pair[2].end
    /\ iv_pair[2].end = iv_pair[1].start
    /\ iv_answers.is_adjacent_ab
    /\ iv_answers.is_adjacent_ba
    /\ ~iv_answers.overlaps_ab
    /\ ~iv_answers.overlaps_ba

====
